---------------------------- MODULE Spec2Model ----------------------------
(***************************************************************************)
(* Instagram saved-collection downloader: the download ledger              *)
(* (downloader/utils.py), the post lister (downloader/fetch.py), the media *)
(* fetcher (downloader/download.py), the metadata writer                   *)
(* (downloader/metadata.py), the archiver (downloader/zipper.py) and the   *)
(* two front ends that sequence them (app.py main, gui/gui.py              *)
(* download_worker).                                                       *)
(*                                                                         *)
(* A post is identified by its primary key pk.  The remote service is the  *)
(* environment: every answer it gives (a login, a page of a listing, a     *)
(* detail lookup, a media download) is drawn from a bounded set.           *)
(***************************************************************************)
EXTENDS Integers, Sequences, FiniteSets, Bags, TLC

(* ------------------------------ bounds -------------------------------- *)
MaxPk == 2          \* post identifiers are 1..MaxPk
MaxPageItems == 1   \* items in one page of a listing
MaxMedias == 2      \* posts one listing accumulates
MaxAmount == 1      \* largest count limit the user enters
MaxLoopItems == 3   \* entries of the page given to an item loop alone

Pks == 1..MaxPk

\* The widgets the window's threads update.
Widgets ==
    { "log_text", "status_label", "progress_bar", "download_btn", "stop_btn",
      "login_btn" }

\* No widget has been touched since the window was built.
NoMutations == [w \in Widgets |-> "none"]

VARIABLES
    frontend,            \* "cli" (app.py) or "gui" (gui/gui.py)
    pc,                  \* position of the running main / download_worker
    tracker_file,        \* data/downloaded.json
    downloaded_pks,      \* DownloadTracker.downloaded_pks of the live tracker
    collection_id,       \* local of main / download_worker
    amount,              \* local of main / download_worker
    medias,              \* lister local: posts accumulated so far
    max_id,              \* lister local: cursor of the next page request
    more_available,      \* lister local
    list_raised,         \* the listing call ended in its except branch
    saved_medias,        \* the candidate list the lister returned
    to_download,         \* the work set
    already_downloaded,  \* the skipped count
    idx,                 \* 1-based position of the loop in to_download
    successful,          \* success counter
    failed,              \* failure counter
    cancelled,           \* the GUI loop was left by the is_downloading check
    download_path,       \* what download_media gave in the last iteration
    metadata_path,       \* what save_metadata gave in the last iteration, if called
    outcomes,            \* per position done: download_media gave a path or not
    marked,              \* pks passed to mark_downloaded by the last run started
    file0,               \* tracker_file as the run's tracker was constructed
    saves,               \* save_tracker calls of the run
    archive,             \* instagram_saved_backup.zip
    is_downloading,      \* GUI: the shared cancellation flag
    ig_client,           \* the client object: GUI self.ig_client, CLI local of main
    fetcher,             \* GUI: self.fetcher
    download_btn,        \* GUI: state of the Download button
    stop_btn,            \* GUI: state of the Stop button
    login_btn,           \* GUI: state of the Login button
    prev_pc,             \* GUI: position of a worker started before the live one
    prev_to_download,    \* that worker's work set from its loop position on
    prev_downloaded_pks, \* downloaded_pks of that worker's tracker
    prev_successful,     \* that worker's success counter
    media,               \* fetcher: the post download_media was called with
    remote_io,           \* fetcher: what the environment answers to that call
    remote_calls,        \* fetcher: the remote downloads that call issued
    files,               \* fetcher: what the remote downloads wrote under downloads/
    metadata,           \* metadata writer: optional sub-records of extract_metadata
    mutated_by,          \* GUI: per widget, the thread that mutated it last
    ui_queue,           \* GUI: callbacks handed to root.after, not yet run
    page_items,         \* lister: the entries of the page an item loop is given
    tree,                \* archiver: the files and folders of the application directory
    zips                 \* archiver: the archives beside downloads/, by file name

vars == << frontend, pc, tracker_file, downloaded_pks, collection_id,
           amount, medias, max_id, more_available, list_raised,
           saved_medias,
           to_download, already_downloaded, idx, successful, failed, cancelled,
           download_path, metadata_path, outcomes, marked, file0, saves,
           archive, is_downloading,
           ig_client, fetcher, download_btn, stop_btn, login_btn,
           prev_pc, prev_to_download, prev_downloaded_pks, prev_successful,
           media, remote_io, remote_calls, files,
           metadata,
           mutated_by, ui_queue,
           page_items,
           tree, zips >>

listerVars == << medias, max_id, more_available, list_raised >>
runVars == << frontend, tracker_file, downloaded_pks, collection_id, amount,
              marked, file0, saves >>
loopVars == << to_download, already_downloaded, idx, successful, failed,
               cancelled, download_path, metadata_path, outcomes >>
guiVars == << is_downloading, ig_client, fetcher, download_btn, stop_btn,
              login_btn >>
outputVars == << archive >>
prevVars == << prev_pc, prev_to_download, prev_downloaded_pks, prev_successful >>
fetcherVars == << media, remote_io, remote_calls, files >>
metadataVars == << metadata >>
widgetVars == << mutated_by, ui_queue >>
pageVars == << page_items >>
zipperVars == << tree, zips >>

(* ------------------------------ helpers ------------------------------- *)
SeqsUpTo(S, n) == UNION { [1..k -> S] : k \in 0..n }

NoCursor == "none"            \* next_max_id absent (None)
Cursors == { NoCursor, "c1" }
NoCollection == "none"        \* collection_id None: all saved posts
Collections == { NoCollection, "col1" }

(* ------------------- Download ledger (utils.py) ----------------------- *)
\* The ledger file: absent, unparseable, or the JSON object save_tracker
\* writes.  The array "downloaded" is kept as the bag of its entries: the
\* order list(set) gives is not fixed, and its one reader passes the array to
\* set().  last_updated is kept relative to the running process: "fresh" when
\* written by it, "old" when written before it started.
MissingFile == [kind |-> "missing", downloaded |-> EmptyBag, last_updated |-> "old"]
CorruptFile == [kind |-> "corrupt", downloaded |-> EmptyBag, last_updated |-> "old"]
JsonFile(array, stamp) == [kind |-> "json", downloaded |-> array, last_updated |-> stamp]

\* Files save_tracker does not write but a DownloadTracker can find.  In
\* "json_iterable" the file is a JSON object whose "downloaded" is not an
\* array but another value set() accepts: a string (set() gives its
\* characters) or an object (set() gives its keys); the field holds what
\* iterating it gives.  "json_other" is any other parseable content: not an
\* object (data.get raises), or "downloaded" a number, null, or an array of
\* unhashable values (set() raises).
IterableFile(elements) ==
    [kind |-> "json_iterable", downloaded |-> elements, last_updated |-> "old"]
OtherJsonFile == [kind |-> "json_other", downloaded |-> EmptyBag, last_updated |-> "old"]

\* The file as a process started later finds it.
Aged(file) == [file EXCEPT !.last_updated = "old"]

\* Variant of LoadTracker: _load_tracker reading another key than
\* save_tracker writes.
LoadTrackerOtherKey(file) == {}

\* _load_tracker: set(data.get('downloaded', [])) of a parseable file, the
\* empty set for a missing file or when reading raises.
LoadTracker(file) ==
    IF file.kind \in {"json", "json_iterable"} THEN BagToSet(file.downloaded) ELSE {}

\* is_downloaded
IsDownloaded(pks, pk) == pk \in pks

\* Variant of MarkDownloaded: mark_downloaded that also writes the file
\* through.
MarkDownloadedWriteThrough(pks, file, pk) ==
    [downloaded_pks |-> pks \cup {pk},
     tracker_file |-> [kind |-> "json", downloaded |-> SetToBag(pks \cup {pk}),
                       last_updated |-> "fresh"]]

\* mark_downloaded: the tracker's set and the ledger file after the call.
\* The method adds to the set; it does not open the file.
MarkDownloaded(pks, file, pk) ==
    [downloaded_pks |-> pks \cup {pk}, tracker_file |-> file]

\* save_tracker: the files a call can leave behind.  io = "ok": the object
\* with list(self.downloaded_pks), each pk once, and a fresh time stamp;
\* io = "open_fails": open() raised, the file is as it was; io = "dump_fails":
\* the file was truncated by open(.., 'w') and the dump did not complete.
SaveIO == { "ok", "open_fails", "dump_fails" }
SaveTrackerFiles(pks, file, io) ==
    CASE io = "ok" -> { JsonFile(SetToBag(pks), "fresh") }
      [] io = "open_fails" -> { file }
      [] io = "dump_fails" -> { CorruptFile }

(* ----------------------- Post lister (fetch.py) ----------------------- *)
\* One entry of a page: "ok" names a post whose detail lookup (media_info)
\* answers, "raise" one whose lookup raises, "nomedia" an entry without a
\* media object (neither yields a post, so their pk is left 0).
Items ==
    { [kind |-> "ok", pk |-> p] : p \in Pks }
        \cup { [kind |-> "raise", pk |-> 0], [kind |-> "nomedia", pk |-> 0] }

\* What private_request can answer: a page, or an exception.
RaisedResponse ==
    [status |-> "raise", items |-> << >>, more_available |-> FALSE,
     next_max_id |-> NoCursor]
PageResponses ==
    [status : {"ok"}, items : SeqsUpTo(Items, MaxPageItems),
     more_available : BOOLEAN, next_max_id : Cursors]
        \cup { RaisedResponse }

\* Variant of ConvertCollectionItems: the item loop returning one post
\* late, on fetched > amount.
RECURSIVE ConvertCollectionItemsLate(_, _, _)
ConvertCollectionItemsLate(items, acc, limit) ==
    IF items = << >> THEN [medias |-> acc, reached |-> FALSE]
    ELSE IF Head(items).kind = "ok"
         THEN LET acc2 == Append(acc, Head(items).pk) IN
              IF limit > 0 /\ Len(acc2) > limit
              THEN [medias |-> acc2, reached |-> TRUE]
              ELSE ConvertCollectionItemsLate(Tail(items), acc2, limit)
         ELSE ConvertCollectionItemsLate(Tail(items), acc, limit)

\* Variant of ConvertCollectionItems: the item loop left at the first entry
\* whose lookup raises.
RECURSIVE ConvertCollectionItemsAborting(_, _, _)
ConvertCollectionItemsAborting(items, acc, limit) ==
    IF items = << >> THEN [medias |-> acc, reached |-> FALSE]
    ELSE IF Head(items).kind = "ok"
         THEN LET acc2 == Append(acc, Head(items).pk) IN
              IF limit > 0 /\ Len(acc2) >= limit
              THEN [medias |-> acc2, reached |-> TRUE]
              ELSE ConvertCollectionItemsAborting(Tail(items), acc2, limit)
         ELSE IF Head(items).kind = "raise"
              THEN [medias |-> acc, reached |-> FALSE]
              ELSE ConvertCollectionItemsAborting(Tail(items), acc, limit)

\* The item loop of fetch_collection_medias: a post is appended and counted
\* (fetched is len(medias), both start at 0 and grow together); the function
\* returns from inside the loop when amount > 0 and fetched >= amount.
RECURSIVE ConvertCollectionItems(_, _, _)
ConvertCollectionItems(items, acc, limit) ==
    IF items = << >> THEN [medias |-> acc, reached |-> FALSE]
    ELSE IF Head(items).kind = "ok"
         THEN LET acc2 == Append(acc, Head(items).pk) IN
              IF limit > 0 /\ Len(acc2) >= limit
              THEN [medias |-> acc2, reached |-> TRUE]
              ELSE ConvertCollectionItems(Tail(items), acc2, limit)
         ELSE ConvertCollectionItems(Tail(items), acc, limit)

\* The item loop of _fetch_saved_private_api: no limit.
RECURSIVE ConvertSavedItems(_, _)
ConvertSavedItems(items, acc) ==
    IF items = << >> THEN acc
    ELSE IF Head(items).kind = "ok"
         THEN ConvertSavedItems(Tail(items), Append(acc, Head(items).pk))
         ELSE ConvertSavedItems(Tail(items), acc)

\* The test that ends the while loop of fetch_collection_medias.
CollectionPagingEnds(more, cursor) == ~more \/ cursor = NoCursor

\* The test that ends the while loop of _fetch_saved_private_api.
SavedPagingEnds(more, cursor) == ~more

\* What the library calls saved_medias(amount=0) and
\* collection_medias("ALL_MEDIA_AUTO_COLLECTION", amount=0) can answer.
LibraryResults == SeqsUpTo(Pks, MaxMedias)

\* Variant of RaisedListing: the except branch returning what the loop had
\* accumulated.
RaisedListingPartial(acc) == acc

\* The except branch of a listing function, entered with acc accumulated:
\* return [].
RaisedListing(acc) == << >>

\* A listing call returns: the orchestrator holds its result, the list the
\* call accumulated is no longer a local of anything.
ListReturn(result) ==
    /\ saved_medias' = result
    /\ medias' = << >>
    /\ pc' = "listed"

\* fetch_collection_medias is called: the locals before the while loop.
ListCollection ==
    /\ pc = "list"
    /\ collection_id # NoCollection
    /\ medias' = << >>
    /\ max_id' = NoCursor
    /\ more_available' = FALSE
    /\ list_raised' = FALSE
    /\ pc' = "page_coll"
    /\ UNCHANGED << runVars, saved_medias, loopVars, guiVars, outputVars >>
    /\ UNCHANGED << prevVars, fetcherVars, metadataVars, widgetVars, pageVars,
                    zipperVars >>

\* One iteration of the while loop of fetch_collection_medias.
PageCollection ==
    /\ pc = "page_coll"
    /\ \E resp \in PageResponses :
         IF resp.status = "raise"
         THEN /\ list_raised' = TRUE
              /\ UNCHANGED << max_id, more_available >>
              /\ ListReturn(RaisedListing(medias))
         ELSE LET r == ConvertCollectionItems(resp.items, medias, amount) IN
              /\ Len(r.medias) <= MaxMedias
              /\ list_raised' = FALSE
              /\ IF r.reached
                 THEN /\ UNCHANGED << max_id, more_available >>
                      /\ ListReturn(r.medias)
                 ELSE /\ more_available' = resp.more_available
                      /\ max_id' = resp.next_max_id
                      /\ IF CollectionPagingEnds(resp.more_available, resp.next_max_id)
                         THEN ListReturn(r.medias)
                         ELSE /\ medias' = r.medias
                              /\ UNCHANGED << pc, saved_medias >>
    /\ UNCHANGED << runVars, loopVars, guiVars, outputVars >>
    /\ UNCHANGED << prevVars, fetcherVars, metadataVars, widgetVars, pageVars,
                    zipperVars >>

\* fetch_all_saved_medias with a client library that has saved_medias or
\* collection_medias: one library call, whose exception yields [].
ListAllLibrary ==
    /\ pc = "list"
    /\ collection_id = NoCollection
    /\ \E api \in {"saved_medias", "collection_medias"}, raises \in BOOLEAN :
         \E result \in LibraryResults :
            /\ list_raised' = raises
            /\ ListReturn(IF raises THEN << >> ELSE result)
    /\ max_id' = NoCursor
    /\ more_available' = FALSE
    /\ UNCHANGED << runVars, loopVars, guiVars, outputVars >>
    /\ UNCHANGED << prevVars, fetcherVars, metadataVars, widgetVars, pageVars,
                    zipperVars >>

\* fetch_all_saved_medias falls back to _fetch_saved_private_api: the locals
\* before its while loop.
ListAllPrivate ==
    /\ pc = "list"
    /\ collection_id = NoCollection
    /\ medias' = << >>
    /\ max_id' = NoCursor
    /\ more_available' = TRUE
    /\ list_raised' = FALSE
    /\ pc' = "page_saved"
    /\ UNCHANGED << runVars, saved_medias, loopVars, guiVars, outputVars >>
    /\ UNCHANGED << prevVars, fetcherVars, metadataVars, widgetVars, pageVars,
                    zipperVars >>

\* One iteration of the while loop of _fetch_saved_private_api.
PageSaved ==
    /\ pc = "page_saved"
    /\ more_available
    /\ \E resp \in PageResponses :
         IF resp.status = "raise"
         THEN /\ list_raised' = TRUE
              /\ UNCHANGED << max_id, more_available >>
              /\ ListReturn(RaisedListing(medias))
         ELSE LET acc == ConvertSavedItems(resp.items, medias) IN
              /\ Len(acc) <= MaxMedias
              /\ list_raised' = FALSE
              /\ more_available' = resp.more_available
              /\ max_id' = resp.next_max_id
              /\ IF SavedPagingEnds(resp.more_available, resp.next_max_id)
                 THEN ListReturn(acc)
                 ELSE /\ medias' = acc
                      /\ UNCHANGED << pc, saved_medias >>
    /\ UNCHANGED << runVars, loopVars, guiVars, outputVars >>
    /\ UNCHANGED << prevVars, fetcherVars, metadataVars, widgetVars, pageVars,
                    zipperVars >>

(* --------------------- Media fetcher (download.py) -------------------- *)
\* media_type as declared by the remote service: 1 photo, 2 video, 8 album,
\* 0 for any other value.
MediaTypes == {1, 2, 8, 0}

\* No post: download_media has not been called.
NoMedia == [pk |-> 0, media_type |-> 0]

\* The posts download_media can be called with.
Medias == [pk : Pks, media_type : MediaTypes]

\* What the environment does to one call of download_media.  "ok": the
\* library call returns a path; "list": it returns a list of paths (what the
\* library documents for album_download), on which Path(...) raises; "raise":
\* it raises; "mkdir_fails": creating the album's folder raises, before any
\* library call (albums only).
FetchOutcomes == { "ok", "list", "raise", "mkdir_fails" }

\* The folders under downloads/: photos, videos, and albums/<pk>.
PhotosDir == [dir |-> "photos", sub |-> 0]
VideosDir == [dir |-> "videos", sub |-> 0]
AlbumDir(pk) == [dir |-> "albums", sub |-> pk]

\* Variant of RemoteCalls: the album downloaded into albums/ itself.
RemoteCallsFlatAlbums(m, io) ==
    CASE m.media_type = 1 ->
           << [api |-> "photo_download", pk |-> m.pk, folder |-> PhotosDir] >>
      [] m.media_type = 2 ->
           << [api |-> "video_download", pk |-> m.pk, folder |-> VideosDir] >>
      [] m.media_type = 8 ->
           << [api |-> "album_download", pk |-> m.pk, folder |-> AlbumDir(0)] >>
      [] OTHER -> << >>

\* The library calls one call of download_media issues: by media_type, one
\* of _download_photo, _download_video, _download_album, or none.
RemoteCalls(m, io) ==
    CASE m.media_type = 1 ->
           << [api |-> "photo_download", pk |-> m.pk, folder |-> PhotosDir] >>
      [] m.media_type = 2 ->
           << [api |-> "video_download", pk |-> m.pk, folder |-> VideosDir] >>
      [] m.media_type = 8 ->
           IF io = "mkdir_fails" THEN << >>
           ELSE << [api |-> "album_download", pk |-> m.pk, folder |-> AlbumDir(m.pk)] >>
      [] OTHER -> << >>

\* download_media: dispatch on the type; the remote download of a known
\* type yields a local path, its exception is caught and yields None; an
\* unknown type yields None.
DownloadMedia(media_type, io) ==
    IF media_type \in {1, 2, 8}
    THEN IF io = "ok" THEN "path" ELSE "none"
    ELSE "none"

(* ------------------- Metadata writer (metadata.py) -------------------- *)
\* save_metadata: the file path, or None when extracting or writing raised.
SaveMetadata(io) == IF io = "ok" THEN "path" ELSE "none"

\* The optional attributes of a post that extract_metadata looks at.  An
\* attribute is missing ("no_attr": hasattr is False), there but falsy
\* ("empty": None or an empty value) or "present".  clips_metadata is kept as
\* a record in every case; its two fields are read only when it is "present".
AttrStates == { "no_attr", "empty", "present" }
ClipsMetadatas ==
    [state : {"no_attr", "empty"}, original_sound_info : {"no_attr"},
     music_info : {"no_attr"}]
        \cup [state : {"present"}, original_sound_info : AttrStates,
              music_info : AttrStates]
MetadataMedias ==
    [pk : Pks, media_type : MediaTypes, clips_metadata : ClipsMetadatas,
     location : AttrStates, resources : {"no_attr", "present"}]

\* No metadata: extract_metadata has not been called; also the dictionary
\* without any optional sub-record.
NoMetadata == [audio |-> "none", location |-> FALSE, carousel_count |-> FALSE]

\* The audio sub-record of extract_metadata: "original_sound" when it is
\* built from original_sound_info, "music" when from music_info, "none" when
\* the dictionary gets no "audio" key.  The music branch is the elif of the
\* test "clips_metadata and hasattr(clips_metadata, 'original_sound_info')".
AudioOf(m) ==
    IF m.media_type = 2 /\ m.clips_metadata.state # "no_attr"
    THEN IF m.clips_metadata.state = "present"
            /\ m.clips_metadata.original_sound_info # "no_attr"
         THEN IF m.clips_metadata.original_sound_info = "present"
              THEN "original_sound" ELSE "none"
         ELSE IF m.clips_metadata.state = "present"
                 /\ m.clips_metadata.music_info # "no_attr"
              THEN IF m.clips_metadata.music_info = "present"
                   THEN "music" ELSE "none"
              ELSE "none"
    ELSE "none"

\* extract_metadata: the optional sub-records of the dictionary (the fixed
\* keys are not followed).
ExtractMetadata(m) ==
    [audio |-> AudioOf(m),
     location |-> (m.location = "present"),
     carousel_count |-> (m.media_type = 8 /\ m.resources = "present")]

(* ------------------------ Archiver (zipper.py) ------------------------ *)
\* instagram_saved_backup.zip: absent, left by an earlier process ("old"), or
\* written by the running one: a complete archive of downloads/ ("zip") or
\* the truncated file a failed call leaves ("partial").  The entries are not
\* followed.
ArchiveKinds == { "none", "old", "zip", "partial" }

\* The archive as a process started later finds it.
AgedArchive(kind) == IF kind = "none" THEN "none" ELSE "old"

\* create_backup_zip: the archives a call can leave behind.  io = "ok": a
\* complete archive, replacing any old one; io = "raise": the call raised,
\* having left the old archive (it could not open the new one) or a
\* truncated new one.
CreateBackupZip(old, io) ==
    IF io = "ok" THEN { "zip" } ELSE { old, "partial" }

\* The application directory, its downloads directory (the base_path of
\* ZipCreator) and the metadata directory below it, as absolute paths.
BaseDir == << "app" >>
BasePath == BaseDir \o << "downloads" >>
MetadataDir == BasePath \o << "metadata" >>

\* The default output_name of the two archive functions.
BackupName == "instagram_saved_backup.zip"
MetadataName == "instagram_metadata.zip"
ZipNames == { BackupName, MetadataName }

\* An archive file: absent, or present with the names of its entries.
NoZip == [exists |-> FALSE, entries |-> {}]
NoZips == [n \in ZipNames |-> NoZip]

\* An archive left by an earlier process, of a file that has gone since.
OldZip ==
    [exists |-> TRUE, entries |-> { << "downloads", "photos", "old.jpg" >> }]

\* Path.suffix of the file and folder names in use.
Suffix(name) ==
    CASE name \in {"1.json", "d.json"} -> ".json"
      [] name = "a.jpg" -> ".jpg"
      [] name = "1.txt" -> ".txt"
      [] OTHER -> ""

\* What the application directory can hold: regular files and (empty)
\* folders; the folders on the way to a node are there with it.
TreeNodes ==
    { [path |-> BasePath \o << "photos", "a.jpg" >>, kind |-> "file"],
      [path |-> BasePath \o << "albums", "7" >>, kind |-> "dir"],
      [path |-> BasePath \o << "1.json" >>, kind |-> "file"],
      [path |-> MetadataDir \o << "1.json" >>, kind |-> "file"],
      [path |-> MetadataDir \o << "1.txt" >>, kind |-> "file"],
      [path |-> MetadataDir \o << "d.json" >>, kind |-> "dir"],
      [path |-> MetadataDir \o << "7", "1.json" >>, kind |-> "file"],
      [path |-> BaseDir \o << "data", "1.json" >>, kind |-> "file"] }
Trees == SUBSET TreeNodes

\* dir.rglob(pattern) for the patterns '*' (suffix "") and '*.json': the
\* nodes below dir whose name matches.  The folders on the way are matched as
\* well; they are not files.
RGlob(t, dir, suffix) ==
    { n \in t : /\ Len(n.path) > Len(dir)
                /\ SubSeq(n.path, 1, Len(dir)) = dir
                /\ (suffix = "" \/ Suffix(n.path[Len(n.path)]) = suffix) }

\* file_path.is_file()
IsFile(n) == n.kind = "file"

\* Variant of ArcName: the entry named relative to base_path itself.
ArcNameFromBasePath(path) == SubSeq(path, Len(BasePath) + 1, Len(path))

\* file_path.relative_to(self.base_path.parent)
ArcName(path) == SubSeq(path, Len(BaseDir) + 1, Len(path))

\* The entries the with block writes for the files rglob finds.
ZipEntries(t, dir, suffix) ==
    { ArcName(n.path) : n \in { m \in RGlob(t, dir, suffix) : IsFile(m) } }

\* ZipFile(zip_path, 'w') and the writes: the archive files a call can
\* leave.  "ok": a new archive with the entries; "open_fails": the file as it
\* was; "write_fails": a new archive with the entries written before a write
\* raised, in whatever order rglob gave them.
ZipperIO == { "ok", "open_fails", "write_fails" }
WriteZip(old, entries, io) ==
    CASE io = "ok" -> { [exists |-> TRUE, entries |-> entries] }
      [] io = "open_fails" -> { old }
      [] io = "write_fails" ->
            { [exists |-> TRUE, entries |-> e] : e \in (SUBSET entries) \ {entries} }

(* ------------- Orchestration (app.py main, gui.py worker) ------------- *)
Terminal == { "done", "no_posts", "all_downloaded", "exit1", "error", "killed" }
Idle == { "idle" } \cup Terminal

\* Whether an exception of create_backup_zip on the path with nothing new to
\* download leaves the function that called it: there is no try around it.
ZipAllRaises(io) == io = "raise"

\* Variant of FilterNew: the filter collecting the new posts in reverse.
RECURSIVE FilterNewReversed(_, _)
FilterNewReversed(list, pks) ==
    IF list = << >> THEN << >>
    ELSE IF ~IsDownloaded(pks, Head(list))
         THEN FilterNewReversed(Tail(list), pks) \o << Head(list) >>
         ELSE FilterNewReversed(Tail(list), pks)

\* The list comprehension that filters the candidates against the ledger.
RECURSIVE FilterNew(_, _)
FilterNew(list, pks) ==
    IF list = << >> THEN << >>
    ELSE IF ~IsDownloaded(pks, Head(list))
         THEN << Head(list) >> \o FilterNew(Tail(list), pks)
         ELSE FilterNew(Tail(list), pks)

\* already_downloaded = len(saved_medias) - len(to_download)
SkippedCount(list, work) == Len(list) - Len(work)

\* Variant of Branch without the test "if download_path:": whatever
\* download_media returns counts as a download.
BranchUntested(got) ==
    IF got = "raise" THEN "except" ELSE "then"

\* Variant of Branch with the test inverted: "if not download_path:".
BranchInverted(got) ==
    IF got = "raise" THEN "except"
    ELSE IF got = "path" THEN "else" ELSE "then"

\* The branch the loop body takes on what download_media gave: the test
\* "if download_path:" inside the try, and the except clause.
Branch(got) ==
    IF got = "raise" THEN "except"
    ELSE IF got = "path" THEN "then" ELSE "else"

\* The locals of a run before it has assigned them, and after it has ended.
NoLocals ==
    /\ collection_id' = NoCollection
    /\ amount' = 0
    /\ medias' = << >>
    /\ max_id' = NoCursor
    /\ more_available' = FALSE
    /\ list_raised' = FALSE
    /\ saved_medias' = << >>
    /\ to_download' = << >>
    /\ already_downloaded' = 0
    /\ idx' = 0
    /\ successful' = 0
    /\ failed' = 0
    /\ cancelled' = FALSE
    /\ download_path' = "none"
    /\ metadata_path' = "none"
    /\ outcomes' = << >>
    /\ downloaded_pks' = {}

\* The GUI's finally clause of download_worker.
GuiFinally ==
    /\ download_btn' = "normal"
    /\ stop_btn' = "disabled"
    /\ is_downloading' = FALSE
    /\ UNCHANGED << ig_client, fetcher, login_btn >>

\* The CLI process ends: its client object is gone.  (The window's fields
\* are not used by the CLI and stay as they are.)
CliExit ==
    /\ ig_client' = "none"
    /\ UNCHANGED << is_downloading, fetcher, download_btn, stop_btn, login_btn >>

\* What ends a run at `label`: the CLI process returns or exits, the GUI
\* worker runs its finally clause and ends; the locals are gone.
Finish(label) ==
    /\ pc' = label
    /\ NoLocals
    /\ marked' = {}
    /\ IF frontend = "gui" THEN GuiFinally ELSE CliExit
    /\ UNCHANGED << frontend, file0, saves >>

\* app.py main up to the login: directories, DownloadTracker(data_dir).
CliStart ==
    /\ frontend = "cli"
    /\ pc \in Idle
    /\ tracker_file' = Aged(tracker_file)
    /\ downloaded_pks' = LoadTracker(tracker_file')
    /\ file0' = tracker_file'
    /\ saves' = 0
    /\ archive' = AgedArchive(archive)
    /\ marked' = {}
    /\ pc' = "login"
    /\ UNCHANGED << frontend, collection_id, amount, listerVars, saved_medias,
                    loopVars, guiVars >>
    /\ UNCHANGED << prevVars, fetcherVars, metadataVars, widgetVars, pageVars,
                    zipperVars >>

\* Variant of LoginProceeds: main going on whatever login_with_session
\* returned.
LoginUnchecked(sessionid_given, login_ok) == sessionid_given

\* Whether main goes on past the login: get_session_id exits on an empty
\* session id, main exits when login_with_session returned False.
LoginProceeds(sessionid_given, login_ok) == sessionid_given /\ login_ok

\* get_session_id and login_with_session: an empty session id or a failed
\* login is sys.exit(1).
CliLogin ==
    /\ frontend = "cli"
    /\ pc = "login"
    /\ \E sessionid_given \in BOOLEAN, login_ok \in BOOLEAN :
         IF LoginProceeds(sessionid_given, login_ok)
         THEN /\ pc' = "select"
              /\ ig_client' = IF login_ok THEN "authenticated" ELSE "unauthenticated"
              /\ UNCHANGED << runVars, listerVars, saved_medias, loopVars,
                              is_downloading, fetcher, download_btn, stop_btn,
                              login_btn >>
         ELSE Finish("exit1")
    /\ UNCHANGED << tracker_file, outputVars >>
    /\ UNCHANGED << prevVars, fetcherVars, metadataVars, widgetVars, pageVars,
                    zipperVars >>

\* select_collection: no collections gives (None, 0); otherwise the chosen
\* collection and the amount, where an entry <= 0 or empty is 0.
CliSelect ==
    /\ frontend = "cli"
    /\ pc = "select"
    /\ \E has_collections \in BOOLEAN, choice \in Collections,
          amount_input \in (-1)..MaxAmount :
         /\ collection_id' = IF has_collections THEN choice ELSE NoCollection
         /\ amount' = IF has_collections /\ amount_input > 0 THEN amount_input ELSE 0
    /\ pc' = "list"
    /\ UNCHANGED << frontend, tracker_file, downloaded_pks, marked, file0, saves,
                    listerVars, saved_medias, loopVars, guiVars, outputVars >>
    /\ UNCHANGED << prevVars, fetcherVars, metadataVars, widgetVars, pageVars,
                    zipperVars >>

\* gui.py fetch_collections and fetch_collections_worker: a new client, its
\* login, the fetcher and the collections; populate_collections enables the
\* Download button.
GuiLogin ==
    /\ frontend = "gui"
    /\ pc \in Idle
    /\ login_btn = "normal"
    /\ \E login_ok \in BOOLEAN, has_collections \in BOOLEAN :
         IF ~login_ok
         THEN /\ ig_client' = "unauthenticated"
              /\ UNCHANGED << fetcher, download_btn, login_btn >>
         ELSE /\ ig_client' = "authenticated"
              /\ fetcher' = "authenticated"
              /\ IF has_collections
                 THEN download_btn' = "normal" /\ login_btn' = "disabled"
                 ELSE UNCHANGED << download_btn, login_btn >>
    /\ UNCHANGED << pc, runVars, listerVars, saved_medias, loopVars, is_downloading,
                    stop_btn, outputVars >>
    /\ UNCHANGED << prevVars, fetcherVars, metadataVars, widgetVars, pageVars,
                    zipperVars >>

\* gui.py start_download: the guards, the buttons, the flag, and the thread.
GuiStartDownload ==
    /\ frontend = "gui"
    /\ pc \in Idle
    /\ download_btn = "normal"
    /\ ig_client # "none" /\ fetcher # "none"
    /\ ~is_downloading
    /\ \E choice \in Collections, n \in 0..MaxAmount :
         /\ collection_id' = choice
         /\ amount' = n
    /\ download_btn' = "disabled"
    /\ stop_btn' = "normal"
    /\ is_downloading' = TRUE
    /\ tracker_file' = Aged(tracker_file)
    /\ file0' = tracker_file'
    /\ saves' = 0
    /\ archive' = AgedArchive(archive)
    /\ marked' = {}
    /\ pc' = "spawned"
    /\ UNCHANGED << frontend, downloaded_pks, listerVars, saved_medias,
                    loopVars, ig_client, fetcher, login_btn >>
    /\ UNCHANGED << prevVars, fetcherVars, metadataVars, widgetVars, pageVars,
                    zipperVars >>

\* gui.py stop_download, pressed by the user.
GuiStopDownload ==
    /\ frontend = "gui"
    /\ stop_btn = "normal"
    /\ is_downloading' = FALSE
    /\ download_btn' = "normal"
    /\ stop_btn' = "disabled"
    /\ UNCHANGED << pc, runVars, listerVars, saved_medias, loopVars, ig_client,
                    fetcher, login_btn, outputVars >>
    /\ UNCHANGED << prevVars, fetcherVars, metadataVars, widgetVars, pageVars,
                    zipperVars >>

\* gui.py download_worker up to the listing: directories, DownloadTracker.
GuiWorkerStart ==
    /\ frontend = "gui"
    /\ pc = "spawned"
    /\ downloaded_pks' = LoadTracker(tracker_file)
    /\ file0' = tracker_file
    /\ pc' = "list"
    /\ UNCHANGED << frontend, tracker_file, collection_id, amount, marked, saves,
                    listerVars, saved_medias, loopVars, guiVars, outputVars >>
    /\ UNCHANGED << prevVars, fetcherVars, metadataVars, widgetVars, pageVars,
                    zipperVars >>

\* Variant of NoPosts: the orchestrator going on with whatever the listing
\* returned.
NoPostsUntested(list) == FALSE

\* The test "if not saved_medias" after the listing.
NoPosts(list) == list = << >>

\* After the listing: no posts ends the run; otherwise filter by the ledger.
\* Nothing after the listing call reads collection_id or amount, and the
\* locals of the lister are gone: the model lets go of them here.
Filter ==
    /\ pc = "listed"
    /\ IF NoPosts(saved_medias)
       THEN Finish("no_posts")
       ELSE /\ to_download' = FilterNew(saved_medias, downloaded_pks)
            /\ already_downloaded' =
                  SkippedCount(saved_medias, FilterNew(saved_medias, downloaded_pks))
            /\ pc' = "filtered"
            /\ medias' = << >>
            /\ max_id' = NoCursor
            /\ more_available' = FALSE
            /\ list_raised' = FALSE
            /\ collection_id' = NoCollection
            /\ amount' = 0
            /\ UNCHANGED << idx, successful, failed, cancelled, download_path,
                            metadata_path, outcomes, guiVars, frontend,
                            downloaded_pks, marked, file0, saves, saved_medias >>
    /\ UNCHANGED << tracker_file, outputVars >>
    /\ UNCHANGED << prevVars, fetcherVars, metadataVars, widgetVars, pageVars,
                    zipperVars >>

\* Nothing new to download.  CLI: the user is asked whether to create the
\* archive, and "n" ends the run.  GUI: the archive is created without asking.
AllDownloaded ==
    /\ pc = "filtered"
    /\ to_download = << >>
    /\ \E create_zip \in BOOLEAN :
         IF frontend = "cli" /\ ~create_zip
         THEN Finish("all_downloaded")
         ELSE /\ pc' = "zip_all"
              /\ UNCHANGED << runVars, listerVars, saved_medias, loopVars, guiVars >>
    /\ UNCHANGED << tracker_file, outputVars >>
    /\ UNCHANGED << prevVars, fetcherVars, metadataVars, widgetVars, pageVars,
                    zipperVars >>

\* create_backup_zip on the path with nothing new to download.  The call is
\* not inside a try of its own: in the CLI its exception reaches the handler
\* around main (sys.exit(1)), in the GUI the worker's outer except clause
\* (an error dialog).
ZipAllDownloaded ==
    /\ pc = "zip_all"
    /\ \E io \in {"ok", "raise"} :
         /\ archive' \in CreateBackupZip(archive, io)
         /\ IF ZipAllRaises(io)
            THEN Finish(IF frontend = "cli" THEN "exit1" ELSE "error")
            ELSE Finish("all_downloaded")
    /\ UNCHANGED tracker_file
    /\ UNCHANGED << prevVars, fetcherVars, metadataVars, widgetVars, pageVars,
                    zipperVars >>

\* There is work: the counters before the loop.  From here on only the
\* length of saved_medias is read (the summary's total, not followed): the
\* model lets go of the list.
BeginLoop ==
    /\ pc = "filtered"
    /\ to_download # << >>
    /\ successful' = 0
    /\ failed' = 0
    /\ idx' = 1
    /\ saved_medias' = << >>
    /\ pc' = "loop"
    /\ UNCHANGED << runVars, listerVars, to_download,
                    already_downloaded, cancelled, download_path, metadata_path,
                    outcomes, guiVars, outputVars >>
    /\ UNCHANGED << prevVars, fetcherVars, metadataVars, widgetVars, pageVars,
                    zipperVars >>

\* The top of a loop iteration: the loop ends when the work set is exhausted
\* or, in the GUI, when is_downloading is false; otherwise the post at idx is
\* taken.
LoopTop ==
    /\ pc = "loop"
    /\ IF idx > Len(to_download)
       THEN pc' = "save" /\ UNCHANGED cancelled
       ELSE IF frontend = "gui" /\ ~is_downloading
            THEN pc' = "save" /\ cancelled' = TRUE
            ELSE pc' = "fetching" /\ UNCHANGED cancelled
    /\ UNCHANGED << runVars, listerVars, saved_medias, to_download,
                    already_downloaded, idx, successful, failed, download_path,
                    metadata_path, outcomes, guiVars, outputVars >>
    /\ UNCHANGED << prevVars, fetcherVars, metadataVars, widgetVars, pageVars,
                    zipperVars >>

\* The body of a loop iteration: download_media, and on a path save_metadata,
\* mark_downloaded and the success counter; on None or an exception the
\* failure counter.
LoopBody ==
    /\ pc = "fetching"
    /\ \E media_type \in MediaTypes, remote \in {"ok", "raise"},
          thrown \in BOOLEAN, meta_io \in {"ok", "fails"} :
         LET pk == to_download[idx]
             result == IF thrown THEN "raise" ELSE DownloadMedia(media_type, remote)
             after == MarkDownloaded(downloaded_pks, tracker_file, pk)
         IN  /\ download_path' = result
             /\ outcomes' = Append(outcomes, IF result = "path" THEN "fetched"
                                                                ELSE "failed")
             /\ IF Branch(result) = "then"
                THEN /\ metadata_path' = SaveMetadata(meta_io)
                     /\ downloaded_pks' = after.downloaded_pks
                     /\ tracker_file' = after.tracker_file
                     /\ marked' = marked \cup {pk}
                     /\ successful' = successful + 1
                     /\ UNCHANGED failed
                ELSE /\ metadata_path' = "none"
                     /\ failed' = failed + 1
                     /\ UNCHANGED << downloaded_pks, tracker_file, marked, successful >>
    /\ idx' = idx + 1
    /\ pc' = "loop"
    /\ UNCHANGED << frontend, collection_id, amount, file0, saves,
                    listerVars, saved_medias, to_download, already_downloaded,
                    cancelled, guiVars, outputVars >>
    /\ UNCHANGED << prevVars, fetcherVars, metadataVars, widgetVars, pageVars,
                    zipperVars >>

\* Variant of SaveTrackerReturns: save_tracker without its except clause.
SaveTrackerPropagates(io) == io = "ok"

\* Whether a call of save_tracker returns to its caller: the try covers the
\* open and the dump, and the except clause logs and falls through.
SaveTrackerReturns(io) == TRUE

\* tracker.save_tracker() after the loop.  What follows reads the three
\* counters only (the summary, and the GUI's test successful > 0): the model
\* lets go of the tracker and of the loop's other locals here.
SaveTracker ==
    /\ pc = "save"
    /\ \E io \in SaveIO :
         /\ tracker_file' \in SaveTrackerFiles(downloaded_pks, tracker_file, io)
         /\ IF SaveTrackerReturns(io)
            THEN /\ saves' = saves + 1
                 /\ pc' = "zip"
                 /\ downloaded_pks' = {}
                 /\ marked' = {}
                 /\ saved_medias' = << >>
                 /\ to_download' = << >>
                 /\ idx' = 0
                 /\ cancelled' = FALSE
                 /\ download_path' = "none"
                 /\ metadata_path' = "none"
                 /\ outcomes' = << >>
                 /\ UNCHANGED << frontend, collection_id, amount, file0, listerVars,
                                 already_downloaded, successful, failed, guiVars >>
            ELSE Finish(IF frontend = "cli" THEN "exit1" ELSE "error")
    /\ UNCHANGED outputVars
    /\ UNCHANGED << prevVars, fetcherVars, metadataVars, widgetVars, pageVars,
                    zipperVars >>

\* The summary, and whether the archive is created: always in the CLI, only
\* when successful > 0 in the GUI.
Zip ==
    /\ pc = "zip"
    /\ IF frontend = "gui" /\ ~(successful > 0)
       THEN Finish("done")
       ELSE /\ pc' = "zip_call"
            /\ UNCHANGED << runVars, listerVars, saved_medias, loopVars, guiVars >>
    /\ UNCHANGED << tracker_file, outputVars >>
    /\ UNCHANGED << prevVars, fetcherVars, metadataVars, widgetVars, pageVars,
                    zipperVars >>

\* create_backup_zip after the loop, inside try/except: its exception is
\* caught and reported as a warning, and the run ends as it would have.
ZipAfterLoop ==
    /\ pc = "zip_call"
    /\ \E io \in {"ok", "raise"} :
         archive' \in CreateBackupZip(archive, io)
    /\ Finish("done")
    /\ UNCHANGED tracker_file
    /\ UNCHANGED << prevVars, fetcherVars, metadataVars, widgetVars, pageVars,
                    zipperVars >>

\* The run is cut short: the CLI process is interrupted or killed, the GUI
\* window is closed (its daemon threads die with it, and the next session
\* starts from a fresh window).  The locals of the run are gone; the files
\* stay as they are.
Interrupt ==
    /\ pc \notin Idle
    /\ pc' = "killed"
    /\ IF frontend = "gui"
       THEN /\ is_downloading' = FALSE
            /\ ig_client' = "none"
            /\ fetcher' = "none"
            /\ download_btn' = "disabled"
            /\ stop_btn' = "disabled"
            /\ login_btn' = "normal"
       ELSE CliExit
    /\ NoLocals
    /\ UNCHANGED << frontend, tracker_file, marked, file0, saves, outputVars >>
    /\ UNCHANGED << prevVars, fetcherVars, metadataVars, widgetVars, pageVars,
                    zipperVars >>

Init ==
    /\ frontend \in {"cli", "gui"}
    /\ pc = "idle"
    /\ tracker_file = MissingFile
    /\ downloaded_pks = {}
    /\ collection_id = NoCollection
    /\ amount = 0
    /\ medias = << >>
    /\ max_id = NoCursor
    /\ more_available = FALSE
    /\ list_raised = FALSE
    /\ saved_medias = << >>
    /\ to_download = << >>
    /\ already_downloaded = 0
    /\ idx = 0
    /\ successful = 0
    /\ failed = 0
    /\ cancelled = FALSE
    /\ download_path = "none"
    /\ metadata_path = "none"
    /\ outcomes = << >>
    /\ marked = {}
    /\ file0 = MissingFile
    /\ saves = 0
    /\ archive = "none"
    /\ is_downloading = FALSE
    /\ ig_client = "none"
    /\ fetcher = "none"
    /\ download_btn = "disabled"
    /\ stop_btn = "disabled"
    /\ login_btn = "normal"
    /\ prev_pc = "none"
    /\ prev_to_download = << >>
    /\ prev_downloaded_pks = {}
    /\ prev_successful = 0
    /\ media = NoMedia
    /\ remote_io = "ok"
    /\ remote_calls = << >>
    /\ files = {}
    /\ tree = {}
    /\ zips = NoZips
    /\ page_items = << >>
    /\ mutated_by = NoMutations
    /\ ui_queue = << >>
    /\ metadata = NoMetadata

Next ==
    \/ CliStart
    \/ CliLogin
    \/ CliSelect
    \/ GuiLogin
    \/ GuiStartDownload
    \/ GuiStopDownload
    \/ GuiWorkerStart
    \/ ListCollection
    \/ PageCollection
    \/ ListAllLibrary
    \/ ListAllPrivate
    \/ PageSaved
    \/ Filter
    \/ AllDownloaded
    \/ ZipAllDownloaded
    \/ BeginLoop
    \/ LoopTop
    \/ LoopBody
    \/ SaveTracker
    \/ Zip
    \/ ZipAfterLoop
    \/ Interrupt

Spec == Init /\ [][Next]_vars

(* ---------------- The window with two download workers ---------------- *)
\* stop_download sets is_downloading False and enables the Download button
\* without waiting for the worker thread; start_download tests only the flag.
\* So Download can be pressed while a worker is still in its loop: the
\* worker followed so far becomes the earlier worker (prev_*), of which the
\* rest of the work set, the tracker's set and the success counter are kept,
\* and a new thread is started.  One such overlap per window is followed, and
\* of the moments Download can be pressed the one with a post in flight: the
\* worker passed its flag check with is_downloading True, so the flag is
\* False here because Stop was pressed during this post.

\* gui.py start_download, pressed after Stop while the worker started before
\* has a post in flight.
GuiStartDownloadAgain ==
    /\ frontend = "gui"
    /\ pc = "fetching"
    /\ prev_pc = "none"
    /\ download_btn = "normal"
    /\ ig_client # "none" /\ fetcher # "none"
    /\ ~is_downloading
    /\ prev_pc' = pc
    /\ prev_to_download' = SubSeq(to_download, idx, Len(to_download))
    /\ prev_downloaded_pks' = downloaded_pks
    /\ prev_successful' = successful
    /\ \E choice \in Collections, n \in 0..MaxAmount :
         /\ collection_id' = choice
         /\ amount' = n
    /\ download_btn' = "disabled"
    /\ stop_btn' = "normal"
    /\ is_downloading' = TRUE
    /\ tracker_file' = Aged(tracker_file)
    /\ file0' = tracker_file'
    /\ saves' = 0
    /\ archive' = AgedArchive(archive)
    /\ marked' = {}
    /\ pc' = "spawned"
    /\ downloaded_pks' = {}
    /\ medias' = << >>
    /\ max_id' = NoCursor
    /\ more_available' = FALSE
    /\ list_raised' = FALSE
    /\ saved_medias' = << >>
    /\ to_download' = << >>
    /\ already_downloaded' = 0
    /\ idx' = 0
    /\ successful' = 0
    /\ failed' = 0
    /\ cancelled' = FALSE
    /\ download_path' = "none"
    /\ metadata_path' = "none"
    /\ outcomes' = << >>
    /\ UNCHANGED << frontend, ig_client, fetcher, login_btn, fetcherVars,
                    metadataVars, widgetVars, pageVars, zipperVars >>

\* The earlier worker at the top of a loop iteration: it reads the same
\* is_downloading as every other thread.
PrevLoopTop ==
    /\ prev_pc = "loop"
    /\ prev_pc' = IF prev_to_download = << >> \/ ~is_downloading
                  THEN "save" ELSE "fetching"
    /\ UNCHANGED << frontend, pc, runVars, listerVars, saved_medias, loopVars,
                    guiVars, outputVars, prev_to_download, prev_downloaded_pks,
                    prev_successful, fetcherVars, metadataVars,
                    widgetVars, pageVars, zipperVars >>

\* The earlier worker's loop body.
PrevLoopBody ==
    /\ prev_pc = "fetching"
    /\ \E media_type \in MediaTypes, remote \in {"ok", "raise"}, thrown \in BOOLEAN :
         LET pk == Head(prev_to_download)
             result == IF thrown THEN "raise" ELSE DownloadMedia(media_type, remote)
             after == MarkDownloaded(prev_downloaded_pks, tracker_file, pk)
         IN  IF Branch(result) = "then"
             THEN /\ prev_downloaded_pks' = after.downloaded_pks
                  /\ tracker_file' = after.tracker_file
                  /\ prev_successful' = prev_successful + 1
             ELSE UNCHANGED << prev_downloaded_pks, tracker_file, prev_successful >>
    /\ prev_to_download' = Tail(prev_to_download)
    /\ prev_pc' = "loop"
    /\ UNCHANGED << frontend, pc, downloaded_pks, collection_id, amount, marked,
                    file0, saves, listerVars, saved_medias, loopVars, guiVars,
                    outputVars, fetcherVars, metadataVars,
                    widgetVars, pageVars, zipperVars >>

\* The earlier worker's save_tracker: the file gets that worker's set.
PrevSaveTracker ==
    /\ prev_pc = "save"
    /\ \E io \in SaveIO :
         tracker_file' \in SaveTrackerFiles(prev_downloaded_pks, tracker_file, io)
    /\ prev_pc' = "zip"
    /\ prev_to_download' = << >>
    /\ UNCHANGED << frontend, pc, downloaded_pks, collection_id, amount, marked,
                    file0, saves, listerVars, saved_medias, loopVars, guiVars,
                    outputVars, prev_downloaded_pks, prev_successful,
                    fetcherVars, metadataVars, widgetVars, pageVars,
                    zipperVars >>

\* The earlier worker's summary, archive and finally clause; the thread ends.
PrevEnd ==
    /\ prev_pc = "zip"
    /\ IF prev_successful > 0
       THEN \E io \in {"ok", "raise"} : archive' \in CreateBackupZip(archive, io)
       ELSE UNCHANGED archive
    /\ GuiFinally
    /\ prev_pc' = "ended"
    /\ prev_successful' = 0
    /\ prev_downloaded_pks' = {}
    /\ UNCHANGED << frontend, pc, runVars, listerVars, saved_medias, loopVars,
                    prev_to_download, fetcherVars, metadataVars, widgetVars,
                    pageVars, zipperVars >>

\* A window after a login that succeeded and found collections.
InitGui ==
    /\ frontend = "gui"
    /\ pc = "idle"
    /\ tracker_file = MissingFile
    /\ downloaded_pks = {}
    /\ collection_id = NoCollection
    /\ amount = 0
    /\ medias = << >>
    /\ max_id = NoCursor
    /\ more_available = FALSE
    /\ list_raised = FALSE
    /\ saved_medias = << >>
    /\ to_download = << >>
    /\ already_downloaded = 0
    /\ idx = 0
    /\ successful = 0
    /\ failed = 0
    /\ cancelled = FALSE
    /\ download_path = "none"
    /\ metadata_path = "none"
    /\ outcomes = << >>
    /\ marked = {}
    /\ file0 = MissingFile
    /\ saves = 0
    /\ archive = "none"
    /\ is_downloading = FALSE
    /\ ig_client = "authenticated"
    /\ fetcher = "authenticated"
    /\ download_btn = "normal"
    /\ stop_btn = "disabled"
    /\ login_btn = "disabled"
    /\ prev_pc = "none"
    /\ prev_to_download = << >>
    /\ prev_downloaded_pks = {}
    /\ prev_successful = 0
    /\ media = NoMedia
    /\ remote_io = "ok"
    /\ remote_calls = << >>
    /\ files = {}
    /\ tree = {}
    /\ zips = NoZips
    /\ page_items = << >>
    /\ mutated_by = NoMutations
    /\ ui_queue = << >>
    /\ metadata = NoMetadata

NextGui ==
    \/ GuiStartDownload
    \/ GuiStopDownload
    \/ GuiWorkerStart
    \/ ListCollection
    \/ PageCollection
    \/ ListAllLibrary
    \/ ListAllPrivate
    \/ PageSaved
    \/ Filter
    \/ AllDownloaded
    \/ ZipAllDownloaded
    \/ BeginLoop
    \/ LoopTop
    \/ LoopBody
    \/ SaveTracker
    \/ Zip
    \/ ZipAfterLoop
    \/ GuiStartDownloadAgain
    \/ PrevLoopTop
    \/ PrevLoopBody
    \/ PrevSaveTracker
    \/ PrevEnd

SpecGui == InitGui /\ [][NextGui]_vars

(* ------------------------ The download ledger alone ------------------- *)
\* A DownloadTracker on any ledger file, written by save_tracker or not:
\* constructed, then marked and saved in any order, then the process ends and
\* a later one constructs a tracker on what is there.
LedgerFiles ==
    { MissingFile, CorruptFile, OtherJsonFile }
        \cup { JsonFile(SetToBag(S), "old") : S \in SUBSET Pks }
        \cup { IterableFile(SetToBag(S)) : S \in SUBSET Pks }

\* DownloadTracker(data_path): __init__ and _load_tracker.
TrackerNew ==
    /\ pc = "t_new"
    /\ downloaded_pks' = LoadTracker(tracker_file)
    /\ file0' = tracker_file
    /\ pc' = "t_loaded"
    /\ UNCHANGED << frontend, tracker_file, collection_id, amount, marked, saves,
                    listerVars, saved_medias, loopVars, guiVars, outputVars,
                    prevVars, fetcherVars, metadataVars, widgetVars,
                    pageVars, zipperVars >>

\* mark_downloaded(pk)
TrackerMark ==
    /\ pc = "t_loaded"
    /\ \E pk \in Pks :
         LET after == MarkDownloaded(downloaded_pks, tracker_file, pk) IN
         /\ pk \notin downloaded_pks
         /\ downloaded_pks' = after.downloaded_pks
         /\ tracker_file' = after.tracker_file
    /\ UNCHANGED << frontend, pc, collection_id, amount, marked, file0, saves,
                    listerVars, saved_medias, loopVars, guiVars, outputVars,
                    prevVars, fetcherVars, metadataVars, widgetVars,
                    pageVars, zipperVars >>

\* save_tracker()
TrackerSave ==
    /\ pc = "t_loaded"
    /\ \E io \in SaveIO :
         tracker_file' \in SaveTrackerFiles(downloaded_pks, tracker_file, io)
    /\ pc' = "t_saved"
    /\ UNCHANGED << frontend, downloaded_pks, collection_id, amount, marked,
                    file0, saves, listerVars, saved_medias, loopVars, guiVars,
                    outputVars, prevVars, fetcherVars, metadataVars,
                    widgetVars, pageVars, zipperVars >>

\* The process ends; the next one finds the file as it was left.
TrackerProcessEnds ==
    /\ pc = "t_saved"
    /\ tracker_file' = Aged(tracker_file)
    /\ downloaded_pks' = {}
    /\ pc' = "t_new"
    /\ UNCHANGED << frontend, collection_id, amount, marked, file0, saves,
                    listerVars, saved_medias, loopVars, guiVars, outputVars,
                    prevVars, fetcherVars, metadataVars, widgetVars,
                    pageVars, zipperVars >>

InitTracker ==
    /\ frontend = "cli"
    /\ pc = "t_new"
    /\ tracker_file \in LedgerFiles
    /\ file0 = tracker_file
    /\ downloaded_pks = {}
    /\ collection_id = NoCollection
    /\ amount = 0
    /\ medias = << >>
    /\ max_id = NoCursor
    /\ more_available = FALSE
    /\ list_raised = FALSE
    /\ saved_medias = << >>
    /\ to_download = << >>
    /\ already_downloaded = 0
    /\ idx = 0
    /\ successful = 0
    /\ failed = 0
    /\ cancelled = FALSE
    /\ download_path = "none"
    /\ metadata_path = "none"
    /\ outcomes = << >>
    /\ marked = {}
    /\ saves = 0
    /\ archive = "none"
    /\ is_downloading = FALSE
    /\ ig_client = "none"
    /\ fetcher = "none"
    /\ download_btn = "disabled"
    /\ stop_btn = "disabled"
    /\ login_btn = "normal"
    /\ prev_pc = "none"
    /\ prev_to_download = << >>
    /\ prev_downloaded_pks = {}
    /\ prev_successful = 0
    /\ media = NoMedia
    /\ remote_io = "ok"
    /\ remote_calls = << >>
    /\ files = {}
    /\ tree = {}
    /\ zips = NoZips
    /\ page_items = << >>
    /\ mutated_by = NoMutations
    /\ ui_queue = << >>
    /\ metadata = NoMetadata

NextTracker ==
    \/ TrackerNew
    \/ TrackerMark
    \/ TrackerSave
    \/ TrackerProcessEnds

SpecTracker == InitTracker /\ [][NextTracker]_vars

(* ------------------------ The media fetcher alone --------------------- *)
\* A MediaDownloader called with any post, the environment answering in any
\* way; the files the library calls write accumulate under downloads/.

\* The caller has the next post, and the environment its answer.
FetcherNextPost ==
    /\ pc = "f_returned"
    /\ \E m \in Medias, io \in FetchOutcomes :
         /\ io = "mkdir_fails" => m.media_type = 8
         /\ media' = m
         /\ remote_io' = io
    /\ remote_calls' = << >>
    /\ download_path' = "none"
    /\ pc' = "f_call"
    /\ UNCHANGED << frontend, runVars, listerVars, saved_medias, to_download,
                    already_downloaded, idx, successful, failed, cancelled,
                    metadata_path, outcomes, guiVars, outputVars, prevVars, files,
                    metadataVars, widgetVars, pageVars, zipperVars >>

\* download_media(media): the library calls it issues, what they leave on
\* disk (a call that raised may or may not have written its file), and what it
\* returns.
FetcherDownloadMedia ==
    /\ pc = "f_call"
    /\ remote_calls' = RemoteCalls(media, remote_io)
    /\ download_path' = DownloadMedia(media.media_type, remote_io)
    /\ LET written == { [folder |-> remote_calls'[i].folder, pk |-> remote_calls'[i].pk] :
                          i \in DOMAIN remote_calls' }
       IN  IF remote_io \in {"ok", "list"}
           THEN files' = files \cup written
           ELSE files' \in { files, files \cup written }
    /\ pc' = "f_returned"
    /\ UNCHANGED << frontend, runVars, listerVars, saved_medias, to_download,
                    already_downloaded, idx, successful, failed, cancelled,
                    metadata_path, outcomes, guiVars, outputVars, prevVars,
                    media, remote_io, metadataVars, widgetVars,
                    pageVars, zipperVars >>

InitFetcher ==
    /\ frontend = "cli"
    /\ pc = "f_call"
    /\ media \in Medias
    /\ remote_io \in FetchOutcomes
    /\ remote_io = "mkdir_fails" => media.media_type = 8
    /\ remote_calls = << >>
    /\ files = {}
    /\ tree = {}
    /\ zips = NoZips
    /\ page_items = << >>
    /\ mutated_by = NoMutations
    /\ ui_queue = << >>
    /\ metadata = NoMetadata
    /\ tracker_file = MissingFile
    /\ file0 = MissingFile
    /\ downloaded_pks = {}
    /\ collection_id = NoCollection
    /\ amount = 0
    /\ medias = << >>
    /\ max_id = NoCursor
    /\ more_available = FALSE
    /\ list_raised = FALSE
    /\ saved_medias = << >>
    /\ to_download = << >>
    /\ already_downloaded = 0
    /\ idx = 0
    /\ successful = 0
    /\ failed = 0
    /\ cancelled = FALSE
    /\ download_path = "none"
    /\ metadata_path = "none"
    /\ outcomes = << >>
    /\ marked = {}
    /\ saves = 0
    /\ archive = "none"
    /\ is_downloading = FALSE
    /\ ig_client = "none"
    /\ fetcher = "none"
    /\ download_btn = "disabled"
    /\ stop_btn = "disabled"
    /\ login_btn = "normal"
    /\ prev_pc = "none"
    /\ prev_to_download = << >>
    /\ prev_downloaded_pks = {}
    /\ prev_successful = 0

NextFetcher ==
    \/ FetcherNextPost
    \/ FetcherDownloadMedia

SpecFetcher == InitFetcher /\ [][NextFetcher]_vars

(* ----------------------- The metadata writer alone -------------------- *)
\* extract_metadata called with any post.

\* The caller has the next post.
MetadataNextPost ==
    /\ pc = "m_returned"
    /\ media' \in MetadataMedias
    /\ metadata' = NoMetadata
    /\ pc' = "m_call"
    /\ UNCHANGED << frontend, runVars, listerVars, saved_medias, loopVars,
                    guiVars, outputVars, prevVars, remote_io, remote_calls, files,
                    widgetVars, pageVars, zipperVars >>

\* extract_metadata(media)
MetadataExtract ==
    /\ pc = "m_call"
    /\ metadata' = ExtractMetadata(media)
    /\ pc' = "m_returned"
    /\ UNCHANGED << frontend, runVars, listerVars, saved_medias, loopVars,
                    guiVars, outputVars, prevVars, fetcherVars,
                    widgetVars, pageVars, zipperVars >>

InitMetadata ==
    /\ frontend = "cli"
    /\ pc = "m_call"
    /\ media \in MetadataMedias
    /\ metadata = NoMetadata
    /\ remote_io = "ok"
    /\ remote_calls = << >>
    /\ files = {}
    /\ tree = {}
    /\ zips = NoZips
    /\ page_items = << >>
    /\ mutated_by = NoMutations
    /\ ui_queue = << >>
    /\ tracker_file = MissingFile
    /\ file0 = MissingFile
    /\ downloaded_pks = {}
    /\ collection_id = NoCollection
    /\ amount = 0
    /\ medias = << >>
    /\ max_id = NoCursor
    /\ more_available = FALSE
    /\ list_raised = FALSE
    /\ saved_medias = << >>
    /\ to_download = << >>
    /\ already_downloaded = 0
    /\ idx = 0
    /\ successful = 0
    /\ failed = 0
    /\ cancelled = FALSE
    /\ download_path = "none"
    /\ metadata_path = "none"
    /\ outcomes = << >>
    /\ marked = {}
    /\ saves = 0
    /\ archive = "none"
    /\ is_downloading = FALSE
    /\ ig_client = "none"
    /\ fetcher = "none"
    /\ download_btn = "disabled"
    /\ stop_btn = "disabled"
    /\ login_btn = "normal"
    /\ prev_pc = "none"
    /\ prev_to_download = << >>
    /\ prev_downloaded_pks = {}
    /\ prev_successful = 0

NextMetadata ==
    \/ MetadataNextPost
    \/ MetadataExtract

SpecMetadata == InitMetadata /\ [][NextMetadata]_vars

(* ------------------- The window's threads and widgets ----------------- *)
\* Who touches the widgets: the handlers Tk runs on the UI thread, the
\* callbacks a worker hands to root.after, and the two worker functions. One
\* worker at a time here; a second worker is the subject of SpecGui.

\* The widgets in ws updated by the given thread.
Mutate(ws, thread) ==
    [w \in Widgets |-> IF w \in ws THEN thread ELSE mutated_by[w]]

\* log(message) and update_status(message): they configure the widgets in
\* the thread that calls them.
LogAndStatus == { "log_text", "status_label" }

\* fetch_collections(): the Login button's handler.
UiFetchCollections ==
    /\ pc = "w_idle"
    /\ login_btn = "normal"
    /\ login_btn' = "disabled"
    /\ mutated_by' = Mutate({"login_btn", "log_text"}, "ui")
    /\ pc' = "w_login"
    /\ UNCHANGED << frontend, runVars, listerVars, saved_medias, loopVars,
                    is_downloading, ig_client, fetcher, download_btn, stop_btn,
                    outputVars, prevVars, fetcherVars, metadataVars, ui_queue,
                    pageVars, zipperVars >>

\* fetch_collections_worker(sessionid), up to the login call: log and
\* update_status from the worker's own thread.
FetchCollectionsWorkerLogin ==
    /\ pc = "w_login"
    /\ mutated_by' = Mutate(LogAndStatus, "worker")
    /\ ig_client' = "client"
    /\ pc' = "w_login_result"
    /\ UNCHANGED << frontend, runVars, listerVars, saved_medias, loopVars,
                    is_downloading, fetcher, download_btn, stop_btn, login_btn,
                    outputVars, prevVars, fetcherVars, metadataVars, ui_queue,
                    pageVars, zipperVars >>

\* fetch_collections_worker(sessionid), the rest: it logs the result from its
\* own thread and hands the button or combo update to the UI thread.
FetchCollectionsWorkerResult ==
    /\ pc = "w_login_result"
    /\ \E result \in {"login_failed", "no_collections", "found", "raised"} :
           /\ ui_queue' = Append(ui_queue, IF result = "found"
                                           THEN "populate_collections"
                                           ELSE "login_btn_normal")
           /\ mutated_by' = Mutate(IF result \in {"no_collections", "found"}
                                   THEN LogAndStatus ELSE {"log_text"}, "worker")
           /\ fetcher' = IF result \in {"no_collections", "found"}
                         THEN "fetcher" ELSE fetcher
    /\ pc' = "w_idle"
    /\ UNCHANGED << frontend, runVars, listerVars, saved_medias, loopVars,
                    is_downloading, ig_client, download_btn, stop_btn,
                    login_btn, outputVars, prevVars, fetcherVars, metadataVars,
                    pageVars, zipperVars >>

\* The UI thread runs the next callback given to root.after:
\* populate_collections, or the lambda that enables the Login button.
UiDispatch ==
    /\ ui_queue # << >>
    /\ IF Head(ui_queue) = "populate_collections"
       THEN /\ download_btn' = "normal"
            /\ mutated_by' = Mutate(LogAndStatus \cup {"download_btn"}, "ui")
            /\ UNCHANGED login_btn
       ELSE /\ login_btn' = "normal"
            /\ mutated_by' = Mutate({"login_btn"}, "ui")
            /\ UNCHANGED download_btn
    /\ ui_queue' = Tail(ui_queue)
    /\ UNCHANGED << frontend, pc, runVars, listerVars, saved_medias, loopVars,
                    is_downloading, ig_client, fetcher, stop_btn, outputVars,
                    prevVars, fetcherVars, metadataVars, pageVars,
                    zipperVars >>

\* start_download(): the Download button's handler.
UiStartDownload ==
    /\ pc = "w_idle"
    /\ download_btn = "normal"
    /\ ig_client # "none" /\ fetcher # "none"
    /\ ~is_downloading
    /\ download_btn' = "disabled"
    /\ stop_btn' = "normal"
    /\ is_downloading' = TRUE
    /\ mutated_by' = Mutate({"download_btn", "stop_btn", "log_text"}, "ui")
    /\ collection_id' \in Collections
    /\ amount' \in 0..MaxAmount
    /\ idx' = 0
    /\ pc' = "w_listing"
    /\ UNCHANGED << frontend, tracker_file, downloaded_pks, marked, file0,
                    saves, listerVars, saved_medias, to_download,
                    already_downloaded, successful, failed, cancelled,
                    download_path, metadata_path, outcomes, ig_client, fetcher,
                    login_btn, outputVars, prevVars, fetcherVars, metadataVars,
                    ui_queue, pageVars, zipperVars >>

\* stop_download() as the Stop button's handler.
UiStopDownload ==
    /\ stop_btn = "normal"
    /\ is_downloading' = FALSE
    /\ download_btn' = "normal"
    /\ stop_btn' = "disabled"
    /\ mutated_by' = Mutate(LogAndStatus \cup {"download_btn", "stop_btn"}, "ui")
    /\ UNCHANGED << frontend, pc, runVars, listerVars, saved_medias, loopVars,
                    ig_client, fetcher, login_btn, outputVars, prevVars,
                    fetcherVars, metadataVars, ui_queue, pageVars,
                    zipperVars >>

\* download_worker up to the loop: with nothing to fetch it calls
\* stop_download() itself and goes to its finally clause.
DownloadWorkerListing ==
    /\ pc = "w_listing"
    /\ \E nothing \in BOOLEAN :
           IF nothing
           THEN /\ mutated_by' = Mutate(LogAndStatus \cup
                                        {"download_btn", "stop_btn"}, "worker")
                /\ download_btn' = "normal"
                /\ stop_btn' = "disabled"
                /\ is_downloading' = FALSE
                /\ pc' = "w_finally"
           ELSE /\ mutated_by' = Mutate(LogAndStatus, "worker")
                /\ pc' = "w_loop"
                /\ UNCHANGED << download_btn, stop_btn, is_downloading >>
    /\ UNCHANGED << frontend, runVars, listerVars, saved_medias, loopVars,
                    ig_client, fetcher, login_btn, outputVars, prevVars,
                    fetcherVars, metadataVars, ui_queue, pageVars,
                    zipperVars >>

\* download_worker, the head of one iteration: the flag, then update_status
\* and update_progress.
DownloadWorkerProgress ==
    /\ pc = "w_loop"
    /\ is_downloading
    /\ idx < MaxMedias
    /\ idx' = idx + 1
    /\ mutated_by' = Mutate({"status_label", "progress_bar"}, "worker")
    /\ pc' = "w_post"
    /\ UNCHANGED << frontend, runVars, listerVars, saved_medias, to_download,
                    already_downloaded, successful, failed, cancelled,
                    download_path, metadata_path, outcomes, guiVars,
                    outputVars, prevVars, fetcherVars, metadataVars, ui_queue,
                    pageVars, zipperVars >>

\* download_worker, the rest of the iteration: the post is fetched and the
\* outcome logged.
DownloadWorkerPost ==
    /\ pc = "w_post"
    /\ mutated_by' = Mutate({"log_text"}, "worker")
    /\ pc' = "w_loop"
    /\ UNCHANGED << frontend, runVars, listerVars, saved_medias, loopVars,
                    guiVars, outputVars, prevVars, fetcherVars, metadataVars,
                    ui_queue, pageVars, zipperVars >>

\* download_worker after the loop: the summary and the completion message.
DownloadWorkerSummary ==
    /\ pc = "w_loop"
    /\ mutated_by' = Mutate(LogAndStatus, "worker")
    /\ pc' = "w_finally"
    /\ UNCHANGED << frontend, runVars, listerVars, saved_medias, loopVars,
                    guiVars, outputVars, prevVars, fetcherVars, metadataVars,
                    ui_queue, pageVars, zipperVars >>

\* download_worker's finally clause.
DownloadWorkerFinally ==
    /\ pc = "w_finally"
    /\ mutated_by' = Mutate({"download_btn", "stop_btn"}, "worker")
    /\ download_btn' = "normal"
    /\ stop_btn' = "disabled"
    /\ is_downloading' = FALSE
    /\ pc' = "w_idle"
    /\ UNCHANGED << frontend, runVars, listerVars, saved_medias, loopVars,
                    ig_client, fetcher, login_btn, outputVars, prevVars,
                    fetcherVars, metadataVars, ui_queue, pageVars,
                    zipperVars >>

InitWidgets ==
    /\ frontend = "gui"
    /\ pc = "w_idle"
    /\ media = NoMedia
    /\ metadata = NoMetadata
    /\ remote_io = "ok"
    /\ remote_calls = << >>
    /\ files = {}
    /\ tree = {}
    /\ zips = NoZips
    /\ page_items = << >>
    /\ mutated_by = NoMutations
    /\ ui_queue = << >>
    /\ tracker_file = MissingFile
    /\ file0 = MissingFile
    /\ downloaded_pks = {}
    /\ collection_id = NoCollection
    /\ amount = 0
    /\ medias = << >>
    /\ max_id = NoCursor
    /\ more_available = FALSE
    /\ list_raised = FALSE
    /\ saved_medias = << >>
    /\ to_download = << >>
    /\ already_downloaded = 0
    /\ idx = 0
    /\ successful = 0
    /\ failed = 0
    /\ cancelled = FALSE
    /\ download_path = "none"
    /\ metadata_path = "none"
    /\ outcomes = << >>
    /\ marked = {}
    /\ saves = 0
    /\ archive = "none"
    /\ is_downloading = FALSE
    /\ ig_client = "none"
    /\ fetcher = "none"
    /\ download_btn = "disabled"
    /\ stop_btn = "disabled"
    /\ login_btn = "normal"
    /\ prev_pc = "none"
    /\ prev_to_download = << >>
    /\ prev_downloaded_pks = {}
    /\ prev_successful = 0

NextWidgets ==
    \/ UiFetchCollections
    \/ FetchCollectionsWorkerLogin
    \/ FetchCollectionsWorkerResult
    \/ UiDispatch
    \/ UiStartDownload
    \/ UiStopDownload
    \/ DownloadWorkerListing
    \/ DownloadWorkerProgress
    \/ DownloadWorkerPost
    \/ DownloadWorkerSummary
    \/ DownloadWorkerFinally

SpecWidgets == InitWidgets /\ [][NextWidgets]_vars

(* ------------------------ The item loops alone ------------------------ *)
\* The for loop over one page's entries, in fetch_collection_medias and in
\* _fetch_saved_private_api, given any page and any list accumulated from
\* the pages before it.

\* The pages an item loop can be given.
LoopPages == SeqsUpTo(Items, MaxLoopItems)

\* for item in items, in fetch_collection_medias.
ItemsCollectionLoop ==
    /\ pc = "i_loop"
    /\ collection_id # NoCollection
    /\ LET r == ConvertCollectionItems(page_items, medias, amount) IN
         /\ saved_medias' = r.medias
         /\ pc' = IF r.reached THEN "i_reached" ELSE "i_exhausted"
    /\ UNCHANGED << runVars, listerVars, loopVars, guiVars, outputVars,
                    prevVars, fetcherVars, metadataVars, widgetVars,
                    pageVars, zipperVars >>

\* for item in items, in _fetch_saved_private_api.
ItemsSavedLoop ==
    /\ pc = "i_loop"
    /\ collection_id = NoCollection
    /\ saved_medias' = ConvertSavedItems(page_items, medias)
    /\ pc' = "i_exhausted"
    /\ UNCHANGED << runVars, listerVars, loopVars, guiVars, outputVars,
                    prevVars, fetcherVars, metadataVars, widgetVars,
                    pageVars, zipperVars >>

InitItems ==
    /\ frontend = "cli"
    /\ pc = "i_loop"
    /\ page_items \in LoopPages
    /\ collection_id \in Collections
    /\ amount \in (-1)..MaxAmount
    /\ medias \in SeqsUpTo(Pks, MaxMedias)
    /\ (collection_id # NoCollection /\ amount > 0) => Len(medias) < amount
    /\ saved_medias = << >>
    /\ media = NoMedia
    /\ metadata = NoMetadata
    /\ remote_io = "ok"
    /\ remote_calls = << >>
    /\ files = {}
    /\ tree = {}
    /\ zips = NoZips
    /\ mutated_by = NoMutations
    /\ ui_queue = << >>
    /\ tracker_file = MissingFile
    /\ file0 = MissingFile
    /\ downloaded_pks = {}
    /\ max_id = NoCursor
    /\ more_available = FALSE
    /\ list_raised = FALSE
    /\ to_download = << >>
    /\ already_downloaded = 0
    /\ idx = 0
    /\ successful = 0
    /\ failed = 0
    /\ cancelled = FALSE
    /\ download_path = "none"
    /\ metadata_path = "none"
    /\ outcomes = << >>
    /\ marked = {}
    /\ saves = 0
    /\ archive = "none"
    /\ is_downloading = FALSE
    /\ ig_client = "none"
    /\ fetcher = "none"
    /\ download_btn = "disabled"
    /\ stop_btn = "disabled"
    /\ login_btn = "normal"
    /\ prev_pc = "none"
    /\ prev_to_download = << >>
    /\ prev_downloaded_pks = {}
    /\ prev_successful = 0

NextItems ==
    \/ ItemsCollectionLoop
    \/ ItemsSavedLoop

SpecItems == InitItems /\ [][NextItems]_vars

(* -------------------------- The archiver alone ------------------------ *)
\* create_backup_zip and create_metadata_only_zip called, in any order and
\* any number of times, on any content of the application directory.

ZipperPcs == { "z_idle", "z_backup", "z_metadata", "z_raised" }

\* create_backup_zip()
ZipperCreateBackupZip ==
    /\ pc \in ZipperPcs
    /\ \E io \in ZipperIO :
         /\ \E z \in WriteZip(zips[BackupName], ZipEntries(tree, BasePath, ""), io) :
               zips' = [zips EXCEPT ![BackupName] = z]
         /\ pc' = IF io = "ok" THEN "z_backup" ELSE "z_raised"
    /\ UNCHANGED << frontend, runVars, listerVars, saved_medias, loopVars,
                    guiVars, outputVars, prevVars, fetcherVars, metadataVars,
                    widgetVars, pageVars, tree >>

\* create_metadata_only_zip()
ZipperCreateMetadataOnlyZip ==
    /\ pc \in ZipperPcs
    /\ \E io \in ZipperIO :
         /\ \E z \in WriteZip(zips[MetadataName],
                               ZipEntries(tree, MetadataDir, ".json"), io) :
               zips' = [zips EXCEPT ![MetadataName] = z]
         /\ pc' = IF io = "ok" THEN "z_metadata" ELSE "z_raised"
    /\ UNCHANGED << frontend, runVars, listerVars, saved_medias, loopVars,
                    guiVars, outputVars, prevVars, fetcherVars, metadataVars,
                    widgetVars, pageVars, tree >>

InitZipper ==
    /\ frontend = "cli"
    /\ pc = "z_idle"
    /\ tree \in Trees
    /\ zips \in [ZipNames -> {NoZip, OldZip}]
    /\ page_items = << >>
    /\ collection_id = NoCollection
    /\ amount = 0
    /\ medias = << >>
    /\ saved_medias = << >>
    /\ media = NoMedia
    /\ metadata = NoMetadata
    /\ remote_io = "ok"
    /\ remote_calls = << >>
    /\ files = {}
    /\ mutated_by = NoMutations
    /\ ui_queue = << >>
    /\ tracker_file = MissingFile
    /\ file0 = MissingFile
    /\ downloaded_pks = {}
    /\ max_id = NoCursor
    /\ more_available = FALSE
    /\ list_raised = FALSE
    /\ to_download = << >>
    /\ already_downloaded = 0
    /\ idx = 0
    /\ successful = 0
    /\ failed = 0
    /\ cancelled = FALSE
    /\ download_path = "none"
    /\ metadata_path = "none"
    /\ outcomes = << >>
    /\ marked = {}
    /\ saves = 0
    /\ archive = "none"
    /\ is_downloading = FALSE
    /\ ig_client = "none"
    /\ fetcher = "none"
    /\ download_btn = "disabled"
    /\ stop_btn = "disabled"
    /\ login_btn = "normal"
    /\ prev_pc = "none"
    /\ prev_to_download = << >>
    /\ prev_downloaded_pks = {}
    /\ prev_successful = 0

NextZipper ==
    \/ ZipperCreateBackupZip
    \/ ZipperCreateMetadataOnlyZip

SpecZipper == InitZipper /\ [][NextZipper]_vars

(* ------------------------ The post lister alone ----------------------- *)
\* One listing call with any arguments: fetch_collection_medias(collection_id,
\* amount) for a named collection, fetch_all_saved_medias() otherwise.
InitLister ==
    /\ frontend = "cli"
    /\ pc = "list"
    /\ collection_id \in Collections
    /\ amount \in (-1)..MaxAmount
    /\ tracker_file = MissingFile
    /\ downloaded_pks = {}
    /\ medias = << >>
    /\ max_id = NoCursor
    /\ more_available = FALSE
    /\ list_raised = FALSE
    /\ saved_medias = << >>
    /\ to_download = << >>
    /\ already_downloaded = 0
    /\ idx = 0
    /\ successful = 0
    /\ failed = 0
    /\ cancelled = FALSE
    /\ download_path = "none"
    /\ metadata_path = "none"
    /\ outcomes = << >>
    /\ marked = {}
    /\ file0 = MissingFile
    /\ saves = 0
    /\ archive = "none"
    /\ is_downloading = FALSE
    /\ ig_client = "none"
    /\ fetcher = "none"
    /\ download_btn = "disabled"
    /\ stop_btn = "disabled"
    /\ login_btn = "normal"
    /\ prev_pc = "none"
    /\ prev_to_download = << >>
    /\ prev_downloaded_pks = {}
    /\ prev_successful = 0
    /\ media = NoMedia
    /\ remote_io = "ok"
    /\ remote_calls = << >>
    /\ files = {}
    /\ tree = {}
    /\ zips = NoZips
    /\ page_items = << >>
    /\ mutated_by = NoMutations
    /\ ui_queue = << >>
    /\ metadata = NoMetadata

NextLister ==
    \/ ListCollection
    \/ PageCollection
    \/ ListAllLibrary
    \/ ListAllPrivate
    \/ PageSaved

SpecLister == InitLister /\ [][NextLister]_vars

(* ------------------------------ Properties ---------------------------- *)
\* Positions of the work set the loop has done, by what download_media gave.
FetchedAt == { i \in DOMAIN outcomes : outcomes[i] = "fetched" }
FailedAt == { i \in DOMAIN outcomes : outcomes[i] = "failed" }
FetchedPks == { to_download[i] : i \in FetchedAt }
FailedPks == { to_download[i] : i \in FailedAt }

\* C1: a loop iteration in which download_media gave a path and save_metadata
\* gave None counts the post as failed: the failure counter goes up by one,
\* the success counter stays, and the tracker's set is as it was.
C1_MetadataFailureCountsAsFailed ==
    [][(pc = "fetching" /\ download_path' = "path" /\ metadata_path' = "none")
          => /\ failed' = failed + 1
             /\ successful' = successful
             /\ downloaded_pks' = downloaded_pks]_vars

\* C2: a pagination loop that has taken a page and goes on to request
\* another has a cursor to request it with: a page with more_available and no
\* next_max_id ends the loop.
C2_MissingCursorEndsPaging ==
    [][(pc \in {"page_coll", "page_saved"} /\ pc' = pc) => max_id' # NoCursor]_vars

\* C3: when the loop has ended without cancellation, successful + failed is
\* the size of the work set, failed is the number of posts whose fetch gave
\* no path (None or an exception), and every post whose fetch gave a path is
\* marked and in the tracker's set.
C3_LoopProcessesEveryPost ==
    (pc = "save" /\ ~cancelled)
        => /\ Len(outcomes) = Len(to_download)
           /\ successful + failed = Len(to_download)
           /\ failed = Cardinality(FailedAt)
           /\ FetchedPks \subseteq (marked \cap downloaded_pks)

\* C3 happens: a loop over at least two posts has ended, one fetch failed and
\* one gave a path.
C3_Witness ==
    /\ pc = "save" /\ ~cancelled
    /\ Len(to_download) >= 2
    /\ FailedAt # {} /\ FetchedAt # {}

\* C4: when save_tracker has written the file, a DownloadTracker constructed
\* afterwards (by a later process, which finds the file aged) answers
\* is_downloaded true for every pk marked in the run and for every pk the
\* run's tracker had loaded from the file.
C4_LedgerRoundTrip ==
    [][(pc = "save" /\ pc' = "zip" /\ tracker_file'.last_updated = "fresh")
          => \A p \in marked \cup LoadTracker(file0) :
                IsDownloaded(LoadTracker(Aged(tracker_file')), p)]_vars

\* C4 happens: save_tracker has written a file that had entries before the
\* run and has more now.
C4_Witness ==
    /\ pc = "zip"
    /\ tracker_file.kind = "json" /\ tracker_file.last_updated = "fresh"
    /\ file0.kind = "json" /\ file0.downloaded # EmptyBag
    /\ tracker_file.downloaded # file0.downloaded

\* The positions of candidate list C whose pk is not in ledger set L, and the
\* i-th of them from the left.
KeptAt(C, L) == { j \in DOMAIN C : C[j] \notin L }
NthKept(C, L, i) ==
    CHOOSE j \in KeptAt(C, L) : Cardinality({ k \in KeptAt(C, L) : k <= j }) = i

\* C5: the work set is the subsequence of the candidate list whose pks are
\* not in the ledger set, in the candidate list's order, and the skipped count
\* is the length of the candidate list minus the length of the work set.
C5_FilterIsOrderedDifference ==
    pc = "filtered"
        => /\ Len(to_download) = Cardinality(KeptAt(saved_medias, downloaded_pks))
           /\ \A i \in DOMAIN to_download :
                 to_download[i] = saved_medias[NthKept(saved_medias, downloaded_pks, i)]
           /\ already_downloaded = Len(saved_medias) - Len(to_download)

\* C5 happens: a candidate list of which the filter keeps a part and skips a
\* part.
C5_Witness ==
    /\ pc = "filtered"
    /\ to_download # << >>
    /\ Len(to_download) < Len(saved_medias)
    /\ already_downloaded > 0

\* C6: fetch_collection_medias with amount > 0 requests no page once amount
\* posts are accumulated, returns at most amount posts, and returns fewer
\* only when pagination has ended (no more_available, or no next_max_id);
\* with amount <= 0 it returns only when pagination has ended.  (A call that
\* ended in its except branch is left aside.)
C6_LimitSemantics ==
    /\ (pc = "page_coll" /\ amount > 0) => Len(medias) < amount
    /\ (pc = "listed" /\ collection_id # NoCollection /\ ~list_raised)
          => /\ amount > 0
                  => /\ Len(saved_medias) <= amount
                     /\ Len(saved_medias) < amount
                           => (~more_available \/ max_id = NoCursor)
             /\ amount <= 0 => (~more_available \/ max_id = NoCursor)

\* C6 happens: a call with a limit has returned exactly that many posts
\* after a page that announced more, with a cursor.
C6_Witness ==
    /\ pc = "listed" /\ collection_id # NoCollection /\ ~list_raised
    /\ amount > 0
    /\ more_available /\ max_id # NoCursor
    /\ Len(saved_medias) = amount

\* C7: with a limit amount > 0 entered, the candidate list handed to the
\* filter has at most amount posts, for a named collection and for all saved
\* posts alike.
C7_LimitHonouredForBothSelections ==
    (pc = "listed" /\ amount > 0) => Len(saved_medias) <= amount

\* C8: every pk in the tracker's set was loaded from the ledger file when the
\* tracker was constructed or is the pk of a post for which download_media
\* gave a path in this run; a pk is passed to mark_downloaded only for such a
\* post.
C8_MarkedOnlyWhenDownloaded ==
    /\ downloaded_pks \subseteq (LoadTracker(file0) \cup FetchedPks)
    /\ pc \in {"loop", "fetching", "save"} => marked \subseteq FetchedPks

\* C8 happens: the loop has done a post whose fetch failed and one whose
\* fetch gave a path.
C8_Witness ==
    /\ pc = "loop"
    /\ FailedAt # {} /\ FetchedAt # {}
    /\ marked # {}

\* The positions of a run up to and including the call of save_tracker.
BeforeSave ==
    { "login", "select", "spawned", "list", "page_coll", "page_saved", "listed",
      "filtered", "loop", "fetching", "save" }

\* C9: up to the call of save_tracker the ledger file is as the run found
\* it and save_tracker has not been called; a run past its loop has called
\* save_tracker once; a run that ended without a loop, or was cut short before
\* save_tracker, leaves the file as the run found it.
C9_LedgerWrittenOnceAfterLoop ==
    /\ pc \in BeforeSave => (saves = 0 /\ tracker_file = file0)
    /\ pc \in {"zip", "zip_call", "done"} => saves = 1
    /\ pc \in {"zip_all", "no_posts", "all_downloaded", "exit1", "error"}
          => (saves = 0 /\ tracker_file = file0)
    /\ (pc = "killed" /\ saves = 0) => tracker_file = file0

\* C9 happens: a run was cut short after it had marked posts and before
\* save_tracker.
C9_Witness ==
    /\ pc = "killed"
    /\ saves = 0
    /\ marked # {}

\* C10: a post whose fetch failed is not fetched again in the same run, and
\* is not in the ledger file save_tracker writes at the end of the run.
C10_FailedPostsAwaitNextRun ==
    [][/\ pc = "fetching" => to_download[idx] \notin FailedPks
       /\ (pc = "save" /\ pc' = "zip")
             => FailedPks \cap LoadTracker(tracker_file') = {}]_vars

\* The positions of a worker inside its per-post loop.
InLoop == { "loop", "fetching" }

\* C11: under any interleaving of Download and Stop presses with the worker
\* threads, at most one download worker is in its per-post loop, and at most
\* one media fetch is in flight.
C11_OneWorkerInLoop ==
    /\ ~(pc \in InLoop /\ prev_pc \in InLoop)
    /\ ~(pc = "fetching" /\ prev_pc = "fetching")

\* C12: cancellation is cooperative.  The worker on which Stop was pressed
\* while it had a post in flight completes that post (the step from
\* "fetching" is the whole loop body) and starts no further post, also when
\* Download is pressed again before it has reached its next flag check.
C12_StoppedWorkerStartsNoPost ==
    [][/\ prev_pc = "fetching" => prev_pc' \in {"fetching", "loop"}
       /\ ~(prev_pc = "loop" /\ prev_pc' = "fetching")]_vars

\* The positions of a run after its login: selection, listing, filter, loop,
\* ledger write, archive.
AfterLogin ==
    { "select", "spawned", "list", "page_coll", "page_saved", "listed",
      "filtered", "zip_all", "loop", "fetching", "save", "zip", "zip_call" }

\* C13: an authentication failure is fatal.  A run is past its login, i.e.
\* lists, fetches, writes the ledger or archives, only with a client whose
\* most recent login succeeded: the CLI exits on a failed login before it
\* lists, and in the GUI a download can be started (the Download button is
\* enabled, or a worker runs) only when the client object in use is logged
\* in, also when an earlier login of the session had succeeded.
C13_NoRunWithoutLogin ==
    /\ pc \in AfterLogin => ig_client = "authenticated"
    /\ (frontend = "gui" /\ pc \in AfterLogin) => fetcher = "authenticated"
    /\ (frontend = "gui" /\ download_btn = "normal")
          => (ig_client = "authenticated" /\ fetcher = "authenticated")

\* C13 happens: in a window a login has failed after an earlier login had
\* succeeded (the fetcher of the earlier login is still there).
C13_Witness ==
    /\ frontend = "gui"
    /\ ig_client = "unauthenticated"
    /\ fetcher = "authenticated"
    /\ download_btn = "disabled"

\* C14: the archive is recreated on every run whose loop ended, in the CLI
\* and in the GUI, whatever the counters are: a run that has persisted the
\* ledger and printed its summary goes on to call create_backup_zip (unless
\* the process is cut short), and the call comes after save_tracker.
C14_ArchiveAfterEveryLoop ==
    [][/\ (pc = "zip" /\ pc' # "zip") => pc' \in {"zip_call", "killed"}
       /\ pc' = "zip_call" => saves' = 1]_vars

\* C15: a listing failure ends the run gracefully.  A listing call that ended
\* in its except branch has returned the empty list, and on an empty list the
\* orchestrator ends the run as "no posts": no media fetch, no ledger write,
\* no archive, no error exit.
C15_ListingFailureEndsRun ==
    [][/\ (pc' = "listed" /\ list_raised') => saved_medias' = << >>
       /\ (pc = "listed" /\ saved_medias = << >> /\ pc' # "listed")
             => /\ pc' \in {"no_posts", "killed"}
                /\ tracker_file' = tracker_file
                /\ archive' = archive
                /\ saves' = saves]_vars

\* C15 happens: a listing call has raised inside and returned to the
\* orchestrator.
C15_Witness ==
    /\ pc = "listed"
    /\ list_raised
    /\ saved_medias = << >>
    /\ tracker_file.kind = "json"

\* C16: ledger entries are never removed.  Whenever save_tracker has written
\* the file, by whichever worker and after any sequence of runs, Stop then
\* Download overlaps included, every identifier the file contained before
\* the write is in it after the write.
C16_LedgerNeverShrinks ==
    [][tracker_file'.kind = "json"
          => LoadTracker(tracker_file) \subseteq LoadTracker(tracker_file')]_vars

\* C17: an archive failure does not invalidate the run.  When
\* create_backup_zip raises (the step of the call leaves no complete
\* archive), after the loop and on the path with nothing new to download
\* alike, the run ends as it would have ended otherwise, with no error exit,
\* and the ledger file is as it was.
C17_ArchiveFailureIsWarning ==
    [][(pc \in {"zip_all", "zip_call"} /\ pc' \notin {pc, "killed"} /\ archive' # "zip")
          => /\ pc' \in {"done", "all_downloaded"}
             /\ tracker_file' = tracker_file]_vars

\* C18: a ledger save failure is not fatal.  Whatever happens to the file,
\* the call of save_tracker returns: the run is at its summary with the
\* success and failure counters of this session as the loop left them, and
\* from the summary it goes on to the create_backup_zip call (in the CLI
\* always, in the GUI whenever successful > 0).
C18_SaveFailureNotFatal ==
    [][/\ (pc = "save" /\ pc' \notin {"save", "killed"})
             => /\ pc' = "zip"
                /\ saves' = saves + 1
                /\ successful' = successful
                /\ failed' = failed
       /\ (pc = "zip" /\ pc' \notin {"zip", "killed"}
              /\ (frontend = "cli" \/ successful > 0))
             => pc' = "zip_call"]_vars

\* C18 happens: a CLI run that downloaded a post is at the archive call after
\* a save_tracker whose dump failed.
C18_Witness ==
    /\ frontend = "cli"
    /\ pc = "zip_call"
    /\ saves = 1
    /\ successful > 0
    /\ tracker_file.kind = "corrupt"
    /\ file0.kind # "corrupt"

\* C19: the ledger load degrades to empty.  Constructing a DownloadTracker on
\* a missing file, or on a file whose content is not a JSON object with a
\* "downloaded" array, yields an empty set, so that is_downloaded is false for
\* every identifier, and leaves the file as it is.
C19_LoadDegradesToEmpty ==
    [][(pc = "t_new" /\ pc' = "t_loaded" /\ tracker_file.kind # "json")
          => /\ downloaded_pks' = {}
             /\ \A p \in Pks : ~IsDownloaded(downloaded_pks', p)
             /\ tracker_file' = tracker_file]_vars

\* C20 as stated: download_media issues exactly one remote download for a
\* photo, a video or an album, whatever happens.
C20_ExactlyOneRemoteCall ==
    (pc = "f_returned" /\ media.media_type \in {1, 2, 8}) => Len(remote_calls) = 1

\* C20: media fetcher dispatch.  download_media issues at most one remote
\* download, chosen by the declared type alone: a photo (1) into photos/, a
\* video (2) into videos/, an album (8) into albums/<pk>, and exactly one
\* unless the album's folder could not be created; for any other type it
\* issues none and returns failure; whenever the remote call or the local
\* I/O failed it returns failure, and it never raises.
C20_DispatchByType ==
    pc = "f_returned"
        => /\ Len(remote_calls) <= 1
           /\ media.media_type = 1
                 => remote_calls = << [api |-> "photo_download", pk |-> media.pk,
                                       folder |-> PhotosDir] >>
           /\ media.media_type = 2
                 => remote_calls = << [api |-> "video_download", pk |-> media.pk,
                                       folder |-> VideosDir] >>
           /\ (media.media_type = 8 /\ remote_io # "mkdir_fails")
                 => remote_calls = << [api |-> "album_download", pk |-> media.pk,
                                       folder |-> AlbumDir(media.pk)] >>
           /\ (media.media_type = 8 /\ remote_io = "mkdir_fails")
                 => (remote_calls = << >> /\ download_path = "none")
           /\ media.media_type \notin {1, 2, 8}
                 => (remote_calls = << >> /\ download_path = "none")
           /\ remote_io # "ok" => download_path = "none"
           /\ download_path \in {"path", "none"}

\* C20 happens: an album was fetched into its own folder after a photo and a
\* video had been written, and the call returned failure on the list the
\* library gave.
C20_Witness ==
    /\ pc = "f_returned"
    /\ media.media_type = 8
    /\ remote_io = "list"
    /\ Len(remote_calls) = 1
    /\ download_path = "none"
    /\ \E f \in files : f.folder = PhotosDir
    /\ \E f \in files : f.folder = VideosDir

\* The original-sound and background-music information of a post as the
\* claim reads them: present, or absent (no clips metadata, attribute missing,
\* or empty).
HasOriginalSound(m) ==
    m.clips_metadata.state = "present" /\ m.clips_metadata.original_sound_info = "present"
HasMusic(m) ==
    m.clips_metadata.state = "present" /\ m.clips_metadata.music_info = "present"

\* C21: audio fallback in extract_metadata.  For a video-type post the audio
\* sub-record is taken from the original-sound information when that is
\* present, and from the background-music information when the original-sound
\* information is absent (attribute missing or empty) and background-music
\* information is present; there is no audio sub-record for a post that is not
\* a video or has neither.
C21_AudioFallback ==
    pc = "m_returned"
        => /\ (media.media_type = 2 /\ HasOriginalSound(media))
                 => metadata.audio = "original_sound"
           /\ (media.media_type = 2 /\ ~HasOriginalSound(media) /\ HasMusic(media))
                 => metadata.audio = "music"
           /\ (media.media_type # 2 \/ (~HasOriginalSound(media) /\ ~HasMusic(media)))
                 => metadata.audio = "none"

\* C22: no widget is ever mutated by a worker thread; what a worker wants
\* changed in the log, the status label, the progress bar or the buttons is
\* done by the UI thread.
C22_WidgetsOnUiThread == \A w \in Widgets : mutated_by[w] # "worker"

\* The pks of the entries of a page whose detail lookup answers, in order.
RECURSIVE OkPks(_)
OkPks(items) ==
    IF items = << >> THEN << >>
    ELSE IF Head(items).kind = "ok"
         THEN << Head(items).pk >> \o OkPks(Tail(items))
         ELSE OkPks(Tail(items))

\* C23: after the item loop has run over a page, the list is the list of the
\* pages before followed by the page's posts whose detail lookup answered, in
\* the page's order, an entry whose lookup raised being left out wherever it
\* stands; with a limit the list stops at the limit-th post, so an entry left
\* out does not count towards it, and the loop reports the limit reached
\* exactly when that many posts were listed.
C23_FailedItemsSkipped ==
    (pc \in {"i_reached", "i_exhausted"})
        => LET listed == medias \o OkPks(page_items)
               limited == collection_id # NoCollection /\ amount > 0
           IN  IF limited /\ Len(listed) >= amount
               THEN /\ saved_medias = SubSeq(listed, 1, amount)
                    /\ pc = "i_reached"
               ELSE /\ saved_medias = listed
                    /\ pc = "i_exhausted"

\* C23 happens: a page whose first entry's lookup raised and whose later
\* entries gave posts has been run over, after an earlier page gave a post.
C23_Witness ==
    /\ pc \in {"i_reached", "i_exhausted"}
    /\ Len(page_items) >= 2
    /\ page_items[1].kind = "raise"
    /\ page_items[Len(page_items)].kind = "ok"
    /\ medias # << >>
    /\ Len(saved_medias) > Len(medias)

\* C27: when a page request raises, the listing call returns to its caller,
\* with the empty list, whatever the pages before had accumulated.
C27_RaisedPageDiscardsListing ==
    [][(pc \in {"page_coll", "page_saved"} /\ list_raised')
          => /\ pc' = "listed"
             /\ saved_medias' = << >>]_vars

\* C27 happens: a listing call has returned empty from a raised page request
\* made with the cursor an earlier page had given.
C27_Witness ==
    /\ pc = "listed"
    /\ list_raised
    /\ saved_medias = << >>
    /\ more_available /\ max_id # NoCursor

\* The names an archive of the application directory could carry: those it
\* has, and every node of the directory named from the directory.
EntryNames(z) ==
    z.entries \cup { SubSeq(n.path, 2, Len(n.path)) : n \in tree }

\* Whether the name e, read from the application directory, is a regular
\* file there.
IsRegularFile(e) == [path |-> << "app" >> \o e, kind |-> "file"] \in tree

\* C24: when create_backup_zip has returned, instagram_saved_backup.zip
\* exists and its entries are exactly the regular files below downloads/,
\* each named by its path from the application directory (downloads/...),
\* whatever the archive held before; with no file below downloads/ it has no
\* entry.  When create_metadata_only_zip has returned, instagram_metadata.zip
\* holds exactly the regular files below downloads/metadata/ whose name ends
\* in .json, named the same way.
C24_ArchiveContents ==
    /\ pc = "z_backup"
          => LET z == zips[BackupName] IN
             /\ z.exists
             /\ \A e \in EntryNames(z) :
                   e \in z.entries
                      <=> /\ Len(e) >= 2
                          /\ e[1] = "downloads"
                          /\ IsRegularFile(e)
    /\ pc = "z_metadata"
          => LET z == zips[MetadataName] IN
             /\ z.exists
             /\ \A e \in EntryNames(z) :
                   e \in z.entries
                      <=> /\ Len(e) >= 3
                          /\ e[1] = "downloads" /\ e[2] = "metadata"
                          /\ Suffix(e[Len(e)]) = ".json"
                          /\ IsRegularFile(e)

\* C24 happens: create_backup_zip has returned on a directory with a file and
\* an empty folder below downloads/ and a file beside it, and the archive has
\* an entry.
C24_Witness ==
    /\ pc = "z_backup"
    /\ \E n \in tree : n.kind = "dir"
    /\ \E n \in tree : n.kind = "file" /\ n.path[2] = "data"
    /\ zips[BackupName].entries # {}
    /\ zips[MetadataName] = OldZip

\* C25: no post identifier is handed to download_media twice in one run,
\* whatever the candidate list repeats, and after the loop the success counter
\* is the number of identifiers the run has added to the tracker's set.
C25_EachPostFetchedOnce ==
    /\ pc = "fetching"
          => \A i \in 1..(idx - 1) : to_download[i] # to_download[idx]
    /\ pc = "save"
          => successful = Cardinality(downloaded_pks \ LoadTracker(file0))

\* C26: a worker on which Stop was pressed goes on to save_tracker.  When
\* that call has written the file, the file holds every identifier of the
\* worker's tracker, those of the posts it downloaded before it left its loop
\* included, and it still holds them, whatever is written to it afterwards,
\* until the worker ends.
C26_CancelledRunPersists ==
    [][/\ (prev_pc = "save" /\ prev_pc' = "zip"
            /\ tracker_file'.kind = "json" /\ tracker_file' # tracker_file)
             => prev_downloaded_pks \subseteq LoadTracker(tracker_file')
       /\ (prev_pc = "zip" /\ tracker_file'.kind = "json"
            /\ prev_downloaded_pks \subseteq LoadTracker(tracker_file))
             => prev_downloaded_pks \subseteq LoadTracker(tracker_file')]_vars
=============================================================================
